---- MODULE Spec2Model ----
(***************************************************************************)
(* govdata.js: the bounded-concurrency fetch engine.                       *)
(*                                                                         *)
(*   Semaphore           src/src/utils/validators.ts 131-166               *)
(*   FPDSRequest         src/src/utils/validators.ts 511-759               *)
(*   XMLProcessor        src/src/utils/errors.ts     63-147                *)
(*                                                                         *)
(* JavaScript runs one task at a time: an action of this module is one     *)
(* synchronous run of code between two suspension points (an await on the  *)
(* semaphore, on fetch, on response.text() or on a timer).                 *)
(***************************************************************************)
EXTENDS Integers, Sequences, FiniteSets, TLC

\* ------------------------------------------------------------------ bounds
\* largest capacity a Semaphore is constructed with
MaxPermits == 2
\* number of concurrent users of one bare Semaphore (N + k callers)
MaxCallers == 5
\* largest threadCount an FPDSRequest is configured with
MaxThreads == 2
\* largest retryAttempts an FPDSRequest is configured with
MaxRetry == 3
\* contract numbers in one searchContracts request
MaxContracts == 2
\* largest page number asked of getPage
MaxPage == 3
\* largest number of entries in one response feed
MaxRecords == 1
\* longest string tried as a parameter value
MaxChars == 2
\* deepest nesting of objects in an entry given to flattenXMLPaths
MaxDepth == 2

\* ------------------------------------------------------- program constants
\* DEFAULT_CONFIG.retryAttempts and DEFAULT_CONFIG.retryDelay
DefaultRetryAttempts == 3
DefaultRetryDelay == 1000

VARIABLES
    capacity,   \* the argument of new Semaphore(permits)
    gate,       \* a Semaphore used directly: [permits, queue]
    caller,     \* what each user of `gate` is doing
    woke,       \* the caller the last release() resolved, 0 when it resolved none
    params,     \* the params argument of new FPDSRequest(params, config)
    constructed, \* how the constructor ended: returned, or threw an error
    mocked,     \* totalPages of a mocked PaginationState, 0 when not mocked
    request,    \* the request argument of searchContracts(request, config)
    config,     \* this.config of the FPDSRequest objects of the run
    inst,       \* the FPDSRequest object each public call is made on
    semaphore,  \* this.semaphore of each FPDSRequest object
    pagination, \* this.metadata.pagination of each FPDSRequest object
    may,        \* the <<entry point, page>> pairs each public call may be made with
    call,       \* the public calls: entry point, state, what they delivered
    task,       \* the fetchPage invocations, one per <<call, page>>
    batch,      \* the searchContracts call: state and the records it returned
    probe       \* one call of a function on its own: its arguments, its outcome

gateVars == <<capacity, gate, caller, woke>>
reqVars == <<params, constructed, mocked, request, config, inst, may, semaphore, pagination, call, task, batch, probe>>
vars == <<gateVars, reqVars>>

Callers == 1..MaxCallers

\* ---------------------------------------------------------------- Semaphore
\* constructor(permits): this.permits = permits; queue = [].  permits is a
\* whole number, or, when nan is TRUE, a value that is not a number (NaN or
\* undefined): then `permits > 0` is false, permits++ and permits-- leave it
\* not a number, and the field permits of the record means nothing.
NewSemaphore(n) == [permits |-> n, queue |-> <<>>, nan |-> FALSE]
NotANumberSemaphore == [permits |-> 0, queue |-> <<>>, nan |-> TRUE]

\* permits++ and permits--
Incremented(s) == IF s.nan THEN s ELSE [s EXCEPT !.permits = @ + 1]
Decremented(s) == IF s.nan THEN s ELSE [s EXCEPT !.permits = @ - 1]

\* acquire() that takes a permit whenever permits is not below zero
AcquireAtZero(s, who) ==
    IF ~s.nan /\ s.permits >= 0
    THEN [sem |-> Decremented(s), granted |-> TRUE]
    ELSE [sem |-> [s EXCEPT !.queue = Append(s.queue, who)], granted |-> FALSE]

\* acquire() called by `who`: a permit is taken at once when one is free,
\* else the resolver is pushed at the back of the queue.
Acquire(s, who) ==
    IF ~s.nan /\ s.permits > 0
    THEN [sem |-> Decremented(s), granted |-> TRUE]
    ELSE [sem |-> [s EXCEPT !.queue = Append(s.queue, who)], granted |-> FALSE]

\* release() with the hand-over to a waiter left uncounted (permits-- dropped)
ReleaseNoDecrement(s) ==
    IF Len(s.queue) > 0
    THEN [sem |-> [Incremented(s) EXCEPT !.queue = Tail(s.queue)],
          woken |-> {Head(s.queue)}]
    ELSE [sem |-> Incremented(s), woken |-> {}]

\* release() taking the newest waiter (queue.pop() in place of queue.shift())
ReleaseNewest(s) ==
    IF Len(s.queue) > 0
    THEN [sem |-> [s EXCEPT !.queue = SubSeq(s.queue, 1, Len(s.queue) - 1)],
          woken |-> {s.queue[Len(s.queue)]}]
    ELSE [sem |-> Incremented(s), woken |-> {}]

\* release(): permits++; if a waiter is queued, shift it, permits--, resolve it
Release(s) ==
    LET up == Incremented(s) IN
    IF Len(s.queue) > 0
    THEN [sem |-> [Decremented(up) EXCEPT !.queue = Tail(s.queue)],
          woken |-> {Head(s.queue)}]
    ELSE [sem |-> up, woken |-> {}]

\* get available / get waiting
Available(s) == s.permits
Waiting(s) == Len(s.queue)

\* --------------------------------------------------------------- validators
\* A string is modelled as the sequence of its characters.
Digit == {"0", "1", "2", "3", "4", "5", "6", "7", "8", "9"}
Upper ==
    {"A", "B", "C", "D", "E", "F", "G", "H", "I", "J", "K", "L", "M",
     "N", "O", "P", "Q", "R", "S", "T", "U", "V", "W", "X", "Y", "Z"}
\* the characters \s matches and trim() removes
Space == {" ", "\t", "\n", "\r"}

\* the character at position i of s is ch
CharAt(s, i, ch) == i >= 1 /\ i <= Len(s) /\ s[i] = ch
\* \d{n} matches s from position i
DigitsAt(s, i, n) == i >= 1 /\ i + n - 1 <= Len(s) /\ \A k \in i..(i + n - 1) : s[k] \in Digit
\* \d{4}\/\d{2}\/\d{2} matches s from position i (ten characters)
DateAt(s, i) ==
    /\ DigitsAt(s, i, 4) /\ CharAt(s, i + 4, "/")
    /\ DigitsAt(s, i + 5, 2) /\ CharAt(s, i + 7, "/")
    /\ DigitsAt(s, i + 8, 2)

RECURSIVE SkipSpace(_, _)
\* \s* from position i: the position of the first character after the run
SkipSpace(s, i) == IF i <= Len(s) /\ s[i] \in Space THEN SkipSpace(s, i + 1) ELSE i

\* /^\[\d{4}\/\d{2}\/\d{2}\s*,\s*\d{4}\/\d{2}\/\d{2}\]$/.test(dateRange)
validateDateRange(dateRange) ==
    /\ CharAt(dateRange, 1, "[") /\ DateAt(dateRange, 2)
    /\ LET j == SkipSpace(dateRange, 12) IN
        /\ CharAt(dateRange, j, ",")
        /\ LET k == SkipSpace(dateRange, j + 1) IN
            /\ DateAt(dateRange, k)
            /\ CharAt(dateRange, k + 10, "]")
            /\ Len(dateRange) = k + 10

\* Boolean(piid && piid.trim().length > 0)
validatePIID(piid) == Len(piid) > 0 /\ \E k \in 1..Len(piid) : piid[k] \notin Space

\* /^\d{6}$/.test(naics)
validateNAICSCode(naics) == Len(naics) = 6 /\ DigitsAt(naics, 1, 6)

\* /^[A-Z]\d{3}$/.test(psc)
validatePSCCode(psc) == Len(psc) = 4 /\ psc[1] \in Upper /\ DigitsAt(psc, 2, 3)

\* /^\d{4}$/.test(agencyCode)
validateAgencyCode(agencyCode) == Len(agencyCode) = 4 /\ DigitsAt(agencyCode, 1, 4)

\* the values a parameter can hold: undefined, a string, a list of strings
Undefined == [type |-> "undefined", chars |-> <<>>, items |-> <<>>]
Str(chars) == [type |-> "string", chars |-> chars, items |-> <<>>]
List(items) == [type |-> "object", chars |-> <<>>, items |-> items]

\* the keys of the switch in validateSearchParams, by case
DateKeys == {"LAST_MOD_DATE"}
PIIDKeys == {"PIID", "REF_IDV_PIID"}
NAICSKeys == {"PRINCIPAL_NAICS_CODE", "NAICS_CODE"}
PSCKeys == {"PRODUCT_OR_SERVICE_CODE", "PSC_CODE"}
AgencyKeys == {"AGENCY_CODE", "CONTRACTING_AGENCY_ID", "FUNDING_AGENCY_ID"}

\* the validator of a case applied to a string
Accepts(key, chars) ==
    CASE key \in DateKeys -> validateDateRange(chars)
      [] key \in PIIDKeys -> validatePIID(chars)
      [] key \in NAICSKeys -> validateNAICSCode(chars)
      [] key \in PSCKeys -> validatePSCCode(chars)
      [] key \in AgencyKeys -> validateAgencyCode(chars)
      [] OTHER -> TRUE

\* the suggestions each case passes to new ValidationError
Suggestions(key) ==
    CASE key \in DateKeys ->
            <<"Use format: [YYYY/MM/DD, YYYY/MM/DD]", "Example: [2022/01/01, 2024/12/31]">>
      [] key \in PIIDKeys ->
            <<"Contract ID cannot be empty", "Remove any leading/trailing whitespace">>
      [] key \in NAICSKeys ->
            <<"NAICS code must be exactly 6 digits", "Example: 541511">>
      [] key \in PSCKeys ->
            <<"PSC code must be 1 letter followed by 3 digits", "Example: R425">>
      [] key \in AgencyKeys ->
            <<"Agency code must be exactly 4 digits", "Example: 9700">>
      [] OTHER -> <<>>

\* new ValidationError(parameter, value, suggestions)
ValidationError(parameter, value, suggestions) ==
    [kind |-> "ValidationError", code |-> "VALIDATION_ERROR",
     parameter |-> parameter, value |-> value, suggestions |-> suggestions]

\* nothing was thrown
Passed == [ok |-> TRUE, error |-> [kind |-> "none"]]

\* one case of the switch: typeof value === 'string' && !validateX(value)
Offends(key, value) == value.type = "string" /\ ~Accepts(key, value.chars)

\* validateSearchParams in which the first entry's case ends the function
\* (return in place of break)
validateSearchParamsFirstOnly(entries) ==
    IF Len(entries) >= 1 /\ Offends(entries[1][1], entries[1][2])
    THEN [ok |-> FALSE,
          error |-> ValidationError(entries[1][1], entries[1][2],
                                    Suggestions(entries[1][1]))]
    ELSE Passed

RECURSIVE ValidateFrom(_, _)
\* the for loop of validateSearchParams from entry i of Object.entries(params):
\* undefined and null values are skipped, the first offending entry throws
ValidateFrom(entries, i) ==
    IF i > Len(entries) THEN Passed
    ELSE LET key == entries[i][1]
             value == entries[i][2] IN
         IF value.type = "undefined" THEN ValidateFrom(entries, i + 1)
         ELSE IF Offends(key, value)
         THEN [ok |-> FALSE, error |-> ValidationError(key, value, Suggestions(key))]
         ELSE ValidateFrom(entries, i + 1)

\* validateSearchParams(params), params given as Object.entries lists it
validateSearchParams(entries) == ValidateFrom(entries, 1)

\* request.metadata: absent, or an object given as the function from its
\* keys to its values
NoMetadata == [given |-> FALSE, value |-> <<>>]
Metadata(m) == [given |-> TRUE, value |-> m]
\* no searchContracts call is made
NoRequest == [contracts |-> <<>>, dateRange |-> Undefined, metadata |-> NoMetadata]
\* a searchContracts call not made yet: thrown is what the constructor of
\* each task threw, error what the call rejected with
NoBatch ==
    [state |-> "idle", records |-> <<>>, error |-> [kind |-> "none"], thrown |-> <<>>,
     settled |-> <<>>]

\* the promise of the task of contract number c of a running searchContracts
\* settles when the getData() it awaits has: batch.settled lists the tasks in
\* the order in which their promises settled
TaskSettled(b, c, state) ==
    IF b.state = "running" /\ state \in {"resolved", "rejected"}
    THEN [b EXCEPT !.settled = Append(@, c)]
    ELSE b

\* params of a request built without filters
NoParams == <<>>

\* ------------------------------------------------------------- numbers
\* values besides strings: numbers, written as
\* sign, whole part and the digits of the fraction, NaN and booleans
Num(neg, whole, frac) ==
    [type |-> "number", neg |-> neg /\ (whole # 0 \/ frac # <<>>), whole |-> whole,
     frac |-> frac]
NaN == [type |-> "NaN", neg |-> FALSE, whole |-> 0, frac |-> <<>>]
Zero == Num(FALSE, 0, <<>>)
Bool(b) == [type |-> "boolean", value |-> b]

\* ------------------------------------------------------------- objects
\* An object is the sequence of its <<name, value>> pairs in the order of its
\* keys.  object[name], undefined when the object has no such key
GetField(object, name) ==
    IF \E i \in 1..Len(object) : object[i][1] = name
    THEN object[CHOOSE i \in 1..Len(object) : object[i][1] = name][2]
    ELSE Undefined

\* object[name] = value: an existing key keeps its place, a new one goes last
SetField(object, name, value) ==
    IF \E i \in 1..Len(object) : object[i][1] = name
    THEN [i \in 1..Len(object) |->
            IF object[i][1] = name THEN <<name, value>> ELSE object[i]]
    ELSE Append(object, <<name, value>>)

DigitChars == <<"0", "1", "2", "3", "4", "5", "6", "7", "8", "9">>
DigitValue(ch) == CHOOSE n \in 0..9 : DigitChars[n + 1] = ch

RECURSIVE DecimalText(_)
\* String(n) for a whole number n >= 0
DecimalText(n) ==
    IF n < 10 THEN <<DigitChars[n + 1]>>
    ELSE DecimalText(n \div 10) \o <<DigitChars[(n % 10) + 1]>>

\* searchParams of the task of contract number c, as Object.entries lists it
SearchParams(c) ==
    <<<<"PIID", Str(request.contracts[c])>>, <<"LAST_MOD_DATE", request.dateRange>>>>

\* -------------------------------------------------------- buildQueryString
Lower ==
    {"a", "b", "c", "d", "e", "f", "g", "h", "i", "j", "k", "l", "m",
     "n", "o", "p", "q", "r", "s", "t", "u", "v", "w", "x", "y", "z"}
\* the characters URLSearchParams.toString() writes as they are
Unreserved == Upper \cup Lower \cup Digit \cup {"*", "-", ".", "_"}
\* the other characters used here, with the two hexadecimal digits of their byte
Reserved == {",", "&", "=", "+", "%", "/", "[", "]", ":", "\""}
PercentCode(ch) ==
    CASE ch = "," -> <<"%", "2", "C">>
      [] ch = "&" -> <<"%", "2", "6">>
      [] ch = "=" -> <<"%", "3", "D">>
      [] ch = "+" -> <<"%", "2", "B">>
      [] ch = "%" -> <<"%", "2", "5">>
      [] ch = "/" -> <<"%", "2", "F">>
      [] ch = "[" -> <<"%", "5", "B">>
      [] ch = "]" -> <<"%", "5", "D">>
      [] ch = ":" -> <<"%", "3", "A">>
      [] ch = "\"" -> <<"%", "2", "2">>

RECURSIVE FormEncode(_)
\* the application/x-www-form-urlencoded serialisation of a string: a blank
\* becomes "+", a character outside the unreserved set becomes %XX
FormEncode(s) ==
    IF s = <<>> THEN <<>>
    ELSE (IF Head(s) \in Unreserved THEN <<Head(s)>>
          ELSE IF Head(s) = " " THEN <<"+">>
          ELSE PercentCode(Head(s))) \o FormEncode(Tail(s))

RECURSIVE JoinWith(_, _)
\* items.join(sep)
JoinWith(items, sep) ==
    IF items = <<>> THEN <<>>
    ELSE IF Len(items) = 1 THEN items[1]
    ELSE items[1] \o sep \o JoinWith(Tail(items), sep)

\* String(value): a string is itself, an array is its items joined by ","
String(value) ==
    IF value.type = "string" THEN value.chars ELSE JoinWith(value.items, <<",">>)

\* value !== undefined && value !== null && value !== ''
Appended(value) == value.type # "undefined" /\ value # Str(<<>>)

\* the name-value pairs buildQueryString appends to queryParams, in order
QueryPairs(entries) ==
    LET Kept(e) == Appended(e[2])
        kept == SelectSeq(entries, Kept)
    IN [i \in 1..Len(kept) |-> <<kept[i][1], String(kept[i][2])>>]

\* queryParams.toString(): name=value pairs, serialised, joined by "&"
buildQueryString(entries) ==
    LET pairs == QueryPairs(entries) IN
    JoinWith([i \in 1..Len(pairs) |->
                FormEncode(pairs[i][1]) \o <<"=">> \o FormEncode(pairs[i][2])], <<"&">>)

\* DEFAULT_CONFIG.baseUrl
BaseUrl ==
    <<
      "h", "t", "t", "p", "s", ":", "/", "/", "a", "p", "i", ".", "s", "a", "m", ".", "g",
      "o", "v", "/", "p", "r", "o", "d", "/", "f", "e", "d", "e", "r", "a", "l", "c", "o",
      "n", "t", "r", "a", "c", "t", "o", "p", "p", "o", "r", "t", "u", "n", "i", "t", "i",
      "e", "s", "/", "v", "1", "/", "s", "e", "a", "r", "c", "h"
    >>

\* buildSearchUrl(): `${this.config.baseUrl}?${queryString}`
buildSearchUrl(entries) == BaseUrl \o <<"?">> \o buildQueryString(entries)

\* constructor outcomes.  A constructed object has metadata.searchUrl, kept
\* as the name-value pairs of its query; validated is the value the
\* parameter object had when validateSearchParams accepted it.
NotConstructed ==
    [state |-> "pending", error |-> [kind |-> "none"],
     validated |-> <<>>, searchUrl |-> <<>>]
ConstructedFrom(entries) ==
    [state |-> "returned", error |-> [kind |-> "none"],
     validated |-> entries, searchUrl |-> QueryPairs(entries)]
Constructed == ConstructedFrom(NoParams)
Threw(error) ==
    [state |-> "threw", error |-> error, validated |-> <<>>, searchUrl |-> <<>>]

\* ------------------------------------------------- a Semaphore used directly
GateStart(n) ==
    /\ capacity = n
    /\ gate = NewSemaphore(n)
    /\ caller = [c \in Callers |-> "idle"]
    /\ woke = 0

\* no FPDSRequest object exists
NoRequests ==
    /\ params = NoParams
    /\ constructed = NotConstructed
    /\ mocked = 0
    /\ request = NoRequest
    /\ config = [threadCount |-> 1, retryAttempts |-> 1, retryDelay |-> 0]
    /\ inst = <<>>
    /\ may = <<>>
    /\ semaphore = <<>>
    /\ pagination = <<>>
    /\ call = <<>>
    /\ task = <<>>
    /\ batch = NoBatch
    /\ probe = [state |-> "idle"]

InitGate == (\E n \in 1..MaxPermits : GateStart(n)) /\ NoRequests

\* a caller runs `await gate.acquire()`
GateAcquire(c) ==
    /\ caller[c] = "idle"
    /\ LET r == Acquire(gate, c) IN
        /\ gate' = r.sem
        /\ caller' = [caller EXCEPT ![c] = IF r.granted THEN "holding" ELSE "waiting"]
    /\ UNCHANGED <<capacity, woke, reqVars>>

\* a holder runs gate.release() (balanced use: only a holder releases)
GateRelease(c) ==
    /\ caller[c] = "holding"
    /\ LET r == Release(gate) IN
        /\ gate' = r.sem
        /\ caller' = [x \in Callers |->
                        IF x = c THEN "idle"
                        ELSE IF x \in r.woken THEN "holding"
                        ELSE caller[x]]
        /\ woke' = IF r.woken = {} THEN 0 ELSE CHOOSE w \in r.woken : TRUE
    /\ UNCHANGED <<capacity, reqVars>>

NextGate ==
    \/ \E c \in Callers : GateAcquire(c)
    \/ \E c \in Callers : GateRelease(c)

SpecGate == InitGate /\ [][NextGate]_vars

\* every holder eventually calls release()
SpecGateLive == SpecGate /\ \A c \in Callers : WF_vars(GateRelease(c))

Holders == {c \in Callers : caller[c] = "holding"}

\* C1: the callers whose acquire() has completed and who have not released
\* are never more than the capacity the Semaphore was constructed with.
C1_AtMostNHolders == Cardinality(Holders) <= capacity

\* C1 witness: more callers than permits have called acquire(), the gate is
\* full and somebody is kept waiting.
C1_Witness ==
    /\ Cardinality(Holders) = capacity
    /\ Len(gate.queue) >= 2

\* the callers a step admits from the queue
Admitted == {w \in Callers : caller[w] = "waiting" /\ caller'[w] = "holding"}
ReleaseStep(c) == caller[c] = "holding" /\ caller'[c] = "idle"

\* C2: a release() with waiters admits exactly the oldest waiter and nobody
\* else; a release() with no waiter admits nobody and raises available by one.
C2_ReleaseAdmitsOldest ==
    [][\A c \in Callers : ReleaseStep(c) =>
          IF Len(gate.queue) > 0
          THEN /\ Admitted = {Head(gate.queue)}
               /\ gate'.queue = Tail(gate.queue)
               /\ Available(gate') = Available(gate)
          ELSE /\ Admitted = {}
               /\ Available(gate') = Available(gate) + 1]_vars

\* C2 witness: a release() has just handed its permit to a waiter while
\* other callers were queued behind that waiter; they are still waiting.
C2_Witness ==
    /\ woke # 0
    /\ caller[woke] = "holding"
    /\ Len(gate.queue) >= 2
    /\ Available(gate) = 0

\* C3: with every holder releasing, every waiting acquire() completes.
C3_NoStarvation ==
    \A c \in Callers : (caller[c] = "waiting") ~> (caller[c] = "holding")

\* C3 witness: a caller that had to wait has been admitted by a release()
\* and is itself followed by a queue of three waiters.
C3_Witness ==
    /\ woke # 0
    /\ caller[woke] = "holding"
    /\ Len(gate.queue) >= 3
    /\ \A i \in 1..Len(gate.queue) : caller[gate.queue[i]] = "waiting"

\* =========================================================== FPDSRequest
Pages == 1..MaxPage
\* HTTP status codes the upstream answers with
Statuses == {200, 404, 500}

\* ------------------------------------------------------------ error values
\* `call` is the number of the makeRequest call of the task that created the
\* error object: two errors of one task are the same object iff equal here.
NoError == [kind |-> "none", status |-> 0, msg |-> "", call |-> 0]
\* new FPDSRequestError(`HTTP ${status}: ...`, status)
FPDSRequestError(status, n) ==
    [kind |-> "FPDSRequestError", status |-> status, msg |-> "HTTP", call |-> n]
\* new NetworkError(message)
NetworkError(msg, n) ==
    [kind |-> "NetworkError", status |-> 0, msg |-> msg, call |-> n]
\* new ParseError(message): not made by a makeRequest call
ParseError(msg) ==
    [kind |-> "ParseError", status |-> 0, msg |-> msg, call |-> 0]
\* what fetch() and response.text() reject with
AbortError(n) == [kind |-> "AbortError", status |-> 0, msg |-> "aborted", call |-> n]
TypeError(n) == [kind |-> "TypeError", status |-> 0, msg |-> "fetch failed", call |-> n]

\* ------------------------------------------------------------- makeRequest
\* response.ok
Ok(status) == status >= 200 /\ status <= 299

\* the catch clause without its first test: every error becomes a NetworkError
MakeRequestCatchAll(error) ==
    IF error.kind = "AbortError"
    THEN NetworkError("Request timeout", error.call)
    ELSE NetworkError("Network request failed", error.call)

\* the catch clause of makeRequest: an FPDSRequestError is rethrown as it is,
\* an AbortError becomes the timeout NetworkError, anything else the
\* "Network request failed" NetworkError.
MakeRequestCatch(error) ==
    IF error.kind = "FPDSRequestError" THEN error
    ELSE IF error.kind = "AbortError"
    THEN NetworkError("Request timeout", error.call)
    ELSE NetworkError("Network request failed", error.call)

\* what settles `await fetch(url, ...)`: a response with a status, the abort
\* of the timeout timer, or a connection failure
FetchEvents ==
    {[type |-> "response", status |-> st] : st \in Statuses}
        \cup {[type |-> "abort", status |-> 0], [type |-> "reject", status |-> 0]}

\* the try block of makeRequest up to `await response.text()`, for call n:
\* "text" when it goes on to read the body, else the error makeRequest throws
MakeRequestHead(ev, n) ==
    IF ev.type = "response"
    THEN IF ~Ok(ev.status)
         THEN [next |-> "throw", error |-> MakeRequestCatch(FPDSRequestError(ev.status, n))]
         ELSE [next |-> "text", error |-> NoError]
    ELSE IF ev.type = "abort"
    THEN [next |-> "throw", error |-> MakeRequestCatch(AbortError(n))]
    ELSE [next |-> "throw", error |-> MakeRequestCatch(TypeError(n))]

\* response bodies: blank text, text the XML parser throws on, or a feed
Bodies ==
    {[kind |-> "blank", entries |-> 0], [kind |-> "malformed", entries |-> 0]}
        \cup {[kind |-> "feed", entries |-> n] : n \in 0..MaxRecords}

NoBody == [kind |-> "blank", entries |-> 0]

\* what settles `await response.text()`: the body, or a broken connection
TextEvents ==
    {[type |-> "text", body |-> b] : b \in Bodies}
        \cup {[type |-> "reject", body |-> NoBody]}

\* `return await response.text()` inside the try block, for call n
MakeRequestBody(ev, n) ==
    IF ev.type = "text"
    THEN [next |-> "return", body |-> ev.body, error |-> NoError]
    ELSE [next |-> "throw", body |-> ev.body, error |-> MakeRequestCatch(TypeError(n))]

\* makeRequest as a whole: call n, settled by fetchEv and then by textEv
MakeRequest(fetchEv, textEv, n) ==
    LET head == MakeRequestHead(fetchEv, n) IN
    IF head.next = "throw"
    THEN [next |-> "throw", body |-> textEv.body, error |-> head.error]
    ELSE MakeRequestBody(textEv, n)

\* ---------------------------------------------------- makeRequestWithRetry
RECURSIVE Pow2(_)
\* Math.pow(2, k)
Pow2(k) == IF k <= 0 THEN 1 ELSE 2 * Pow2(k - 1)

\* the delay with the exponent one too high
BackoffDelayOffByOne(cfg, attempt) == cfg.retryDelay * Pow2(attempt)

\* const delay = this.config.retryDelay * Math.pow(2, attempt - 1)
BackoffDelay(cfg, attempt) == cfg.retryDelay * Pow2(attempt - 1)

\* a loop that tests its condition after the body (do ... while)
LoopRunsAtLeastOnce(cfg, attempt) == attempt = 1 \/ attempt <= cfg.retryAttempts

\* the condition of `for (let attempt = 1; attempt <= retryAttempts; attempt++)`
LoopRuns(cfg, attempt) == attempt <= cfg.retryAttempts

\* lastError that keeps the first error caught
CaughtErrorKeepFirst(lastError, error) ==
    IF lastError.kind = "none" THEN error ELSE lastError

\* lastError = error instanceof Error ? error : new Error(String(error))
\* (every error makeRequest throws is an Error)
CaughtError(lastError, error) ==
    IF error.kind \in {"FPDSRequestError", "NetworkError", "ParseError",
                       "AbortError", "TypeError"}
    THEN error
    ELSE [kind |-> "Error", status |-> 0, msg |-> "wrapped", call |-> error.call]

\* a catch clause that gives up at once on a 4xx status
AfterCatchNoRetryOn4xx(cfg, attempt, error) ==
    IF attempt = cfg.retryAttempts
        \/ (error.kind = "FPDSRequestError" /\ error.status >= 400 /\ error.status <= 499)
    THEN [next |-> "throw", delay |-> 0]
    ELSE [next |-> "sleep", delay |-> BackoffDelay(cfg, attempt)]

\* the catch clause of the retry loop after lastError is set: break and throw
\* on the last attempt, else sleep for the backoff delay
AfterCatch(cfg, attempt, error) ==
    IF attempt = cfg.retryAttempts
    THEN [next |-> "throw", delay |-> 0]
    ELSE [next |-> "sleep", delay |-> BackoffDelay(cfg, attempt)]

\* ------------------------------------------------------------ XMLProcessor
\* parseXML: ParseError on empty or blank text and on a parser failure
ParseXML(xml) ==
    IF xml.kind = "blank"
    THEN [ok |-> FALSE, error |-> ParseError("XML data is empty or null"), entries |-> 0]
    ELSE IF xml.kind = "malformed"
    THEN [ok |-> FALSE, error |-> ParseError("Failed to parse XML"), entries |-> 0]
    ELSE [ok |-> TRUE, error |-> NoError, entries |-> xml.entries]

\* processXMLResponse then FPDSFieldMapper.mapRecords: one record per entry,
\* in the order of the feed; a record is <<call, page, index>>
ProcessPage(t, xml) ==
    LET parsed == ParseXML(xml) IN
    IF parsed.ok
    THEN [ok |-> TRUE, error |-> NoError,
          records |-> [i \in 1..parsed.entries |-> <<t[1], t[2], i>>]]
    ELSE [ok |-> FALSE, error |-> parsed.error, records |-> <<>>]

\* ------------------------------------------------------- fetchPage: state
\* pc of a fetchPage invocation:
\*   "none"      not called
\*   "waiting"   queued in semaphore.acquire()
\*   "ready"     acquire() resolved, the code after it has not run yet
\*   "fetching"  inside makeRequest, awaiting fetch()
\*   "reading"   inside makeRequest, awaiting response.text()
\*   "backoff"   inside the retry loop, awaiting the backoff timer
\*   "done"      returned its records     "failed"  threw its error
\* attempt and lastError are the locals of makeRequestWithRetry: they exist
\* while the loop runs.  log keeps what the loop did, for the properties.
\* timer is whether the timeout timer of the makeRequest call in progress is
\* set (setTimeout done, clearTimeout not); url is the query of the URL
\* fetchPage built, as its name-value pairs.
\* rank is the position of the invocation among the invocations of its public
\* call in the order in which their promises settled (0 while pending).
NoTask ==
    [pc |-> "none", attempt |-> 0, lastError |-> NoError, log |-> <<>>,
     records |-> <<>>, error |-> NoError, rank |-> 0, timer |-> FALSE, url |-> <<>>]

\* entries of a task's log: a makeRequest call, a backoff sleep of ms
\* milliseconds, the return of a body, the final throw
Attempt == [ev |-> "attempt", ms |-> 0]
Sleep(ms) == [ev |-> "sleep", ms |-> ms]
Returned == [ev |-> "return", ms |-> 0]
Thrown == [ev |-> "throw", ms |-> 0]

InstOf(t) == inst[t[1]]
Holding(t) == task[t].pc \in {"ready", "fetching", "reading", "backoff"}
Finished(t) == task[t].pc \in {"done", "failed"}

\* a try/finally that hands the permit back whenever an attempt has failed
ReleasesPermitOnEveryFailure(next) == TRUE

\* a release() at the end of the try block in place of the finally block: the
\* permit goes back only when fetchPage returns
ReleasesPermitOnReturnOnly(next) == next = "return"

\* try { ... } finally { this.semaphore.release() }: the permit goes back when
\* control leaves the try block (a return or a throw), not while the retry
\* loop inside it sleeps
ReleasesPermit(next) == next \in {"return", "throw"}

\* `task` and `semaphore` after task t moves to record `rec` by a step of kind
\* `next`; the finally block releases and the resolver it calls readies a waiter
Move(t, rec, next) ==
    LET settled == {x \in DOMAIN task : x[1] = t[1] /\ Finished(x)}
        new == IF rec.pc \in {"done", "failed"}
               THEN [rec EXCEPT !.rank = Cardinality(settled) + 1]
               ELSE rec
    IN
    IF ReleasesPermit(next)
    THEN LET r == Release(semaphore[InstOf(t)]) IN
         /\ semaphore' = [semaphore EXCEPT ![InstOf(t)] = r.sem]
         /\ task' = [x \in DOMAIN task |->
                        IF x = t THEN new
                        ELSE IF x \in r.woken THEN [task[x] EXCEPT !.pc = "ready"]
                        ELSE task[x]]
    ELSE /\ task' = [task EXCEPT ![t] = new]
         /\ UNCHANGED semaphore

\* makeRequest call number task[t].attempt threw `error`: the catch clause of
\* the retry loop, and fetchPage's finally when the loop gives up
Failed(t, error) ==
    LET last == CaughtError(task[t].lastError, error)
        step == AfterCatch(config, task[t].attempt, last)
    IN  IF step.next = "throw"
        THEN Move(t, [task[t] EXCEPT !.pc = "failed", !.attempt = 0, !.timer = FALSE,
                                     !.lastError = NoError, !.error = last,
                                     !.log = Append(@, Thrown)], "throw")
        ELSE Move(t, [task[t] EXCEPT !.pc = "backoff", !.lastError = last,
                                     !.timer = FALSE,
                                     !.log = Append(@, Sleep(step.delay))], "sleep")

\* a fetchPage that sends the error of processXMLResponse through the catch
\* clause of the retry loop
ParseFailedRetried(t, error) == Failed(t, error)

\* processXMLResponse threw `error`: the call is outside the retry loop, so
\* the error leaves fetchPage's try block at once, through its finally
ParseFailed(t, error) ==
    Move(t, [task[t] EXCEPT !.pc = "failed", !.attempt = 0,
                            !.lastError = NoError, !.error = error,
                            !.log = Append(@, Returned)], "throw")

\* this.params of the FPDSRequest object of task t: the object the caller
\* gave to the constructor, or the searchParams searchContracts built
ThisParams(t) ==
    IF Len(request.contracts) = 0 THEN params ELSE SearchParams(InstOf(t))

\* the name of the page parameter
NamePage == "page"

\* the query of the URL fetchPage builds for task t, as name-value pairs:
\* buildQueryString({ ...this.params, page: pageNumber.toString() })
PageUrl(t) == QueryPairs(SetField(ThisParams(t), NamePage, Str(DecimalText(t[2]))))

\* ----------------------------------------------------- fetchPage: actions
\* the code of fetchPage after `await this.semaphore.acquire()`: build the
\* URL, enter the retry loop with attempt = 1 and call fetch()
IssueRequest(t) ==
    /\ task[t].pc = "ready"
    /\ IF LoopRuns(config, 1)
       THEN task' = [task EXCEPT ![t].pc = "fetching", ![t].attempt = 1,
                                 ![t].url = PageUrl(t), ![t].timer = TRUE,
                                 ![t].log = Append(@, Attempt)]
            /\ UNCHANGED semaphore
       ELSE \* `throw lastError!` with lastError never assigned
            Move(t, [task[t] EXCEPT !.pc = "failed", !.url = PageUrl(t),
                                    !.log = Append(@, Thrown)],
                 "throw")
    /\ UNCHANGED <<gateVars, params, constructed, mocked, request, config, inst, may, pagination, call, batch, probe>>

\* fetch() resolves with a response of status st
ResponseArrives(t, st) ==
    /\ task[t].pc = "fetching"
    /\ LET h == MakeRequestHead([type |-> "response", status |-> st], task[t].attempt) IN
        IF h.next = "text"
        THEN \* clearTimeout(timeoutId), then `await response.text()`
             task' = [task EXCEPT ![t].pc = "reading", ![t].timer = FALSE]
                /\ UNCHANGED semaphore
        ELSE Failed(t, h.error)
    /\ UNCHANGED <<gateVars, params, constructed, mocked, request, config, inst, may, pagination, call, batch, probe>>

\* the timeout timer fires while fetch() is pending: controller.abort()
RequestTimesOut(t) ==
    /\ task[t].pc = "fetching"
    /\ Failed(t, MakeRequestHead([type |-> "abort", status |-> 0], task[t].attempt).error)
    /\ UNCHANGED <<gateVars, params, constructed, mocked, request, config, inst, may, pagination, call, batch, probe>>

\* fetch() rejects: the connection could not be made or broke
ConnectionFails(t) ==
    /\ task[t].pc = "fetching"
    /\ Failed(t, MakeRequestHead([type |-> "reject", status |-> 0], task[t].attempt).error)
    /\ UNCHANGED <<gateVars, params, constructed, mocked, request, config, inst, may, pagination, call, batch, probe>>

\* response.text() resolves: makeRequest and makeRequestWithRetry return the
\* text, fetchPage parses and maps it, and its finally releases the permit
BodyArrives(t, xml) ==
    /\ task[t].pc = "reading"
    /\ LET text == MakeRequestBody([type |-> "text", body |-> xml], task[t].attempt)
           page == ProcessPage(t, text.body) IN
        IF page.ok
        THEN Move(t, [task[t] EXCEPT !.pc = "done", !.attempt = 0,
                                     !.lastError = NoError,
                                     !.records = page.records,
                                     !.log = Append(@, Returned)], "return")
        ELSE ParseFailed(t, page.error)
    /\ UNCHANGED <<gateVars, params, constructed, mocked, request, config, inst, may, pagination, call, batch, probe>>

\* response.text() rejects: the connection broke while the body was read
BodyFails(t) ==
    /\ task[t].pc = "reading"
    /\ Failed(t, MakeRequestBody([type |-> "reject", body |-> NoBody],
                                  task[t].attempt).error)
    /\ UNCHANGED <<gateVars, params, constructed, mocked, request, config, inst, may, pagination, call, batch, probe>>

\* the backoff timer fires: attempt++, and the loop calls makeRequest again
BackoffElapsed(t) ==
    /\ task[t].pc = "backoff"
    /\ IF LoopRuns(config, task[t].attempt + 1)
       THEN task' = [task EXCEPT ![t].pc = "fetching", ![t].attempt = @ + 1,
                                 ![t].timer = TRUE,
                                 ![t].log = Append(@, Attempt)]
            /\ UNCHANGED semaphore
       ELSE Move(t, [task[t] EXCEPT !.pc = "failed", !.attempt = 0,
                                    !.lastError = NoError,
                                    !.error = task[t].lastError,
                                    !.log = Append(@, Thrown)], "throw")
    /\ UNCHANGED <<gateVars, params, constructed, mocked, request, config, inst, may, pagination, call, batch, probe>>

\* ---------------------------------------------------------- public calls
\* state of a public call:
\*   "idle"       not made          "page"       getPage awaiting fetchPage
\*   "firstPage"  awaiting getFirstPage          "pages"  awaiting Promise.all
\*   "suspended"  getDataStream stopped at a yield
\*   "streamPage" getDataStream awaiting fetchPage(page)
\*   "resolved" / "rejected"  settled, with records / error
\* first is the local firstPageRecords of getData while it awaits the later
\* pages; records is what the call returned, yielded the batches it yielded.
NoCall ==
    [entry |-> "none", state |-> "idle", page |-> 0, totalPages |-> 0,
     first |-> <<>>, records |-> <<>>, yielded |-> <<>>, error |-> NoError]
NoPagination ==
    [currentPage |-> 0, totalPages |-> 0, totalRecords |-> 0, recordsPerPage |-> 0]

\* a PaginationInfo whose totalPages is taken from the record count
PaginationOfRecordCount(records) ==
    [currentPage |-> 1, totalPages |-> Len(records), totalRecords |-> Len(records),
     recordsPerPage |-> Len(records)]

\* the PaginationInfo getFirstPage builds from the records of page 1
PaginationOf(records) ==
    [currentPage |-> 1, totalPages |-> 1, totalRecords |-> Len(records),
     recordsPerPage |-> Len(records)]

\* a page fetch that derives the PaginationInfo again from its records
PaginationRederived(info, records) ==
    [info EXCEPT !.totalRecords = Len(records), !.recordsPerPage = Len(records)]

\* this.metadata.pagination after the records of a page other than the first
\* page of getFirstPage have been taken: fetchPage, getPage and the loops of
\* getData and getDataStream assign nothing to this.metadata.pagination
PaginationAfterPage(info, records) == info

\* the PaginationInfo getData and getDataStream read: the one getFirstPage
\* built, or, under a mocked PaginationState, that one with the mocked
\* number of pages
PaginationRead(records) ==
    IF mocked = 0 THEN PaginationOf(records)
    ELSE [PaginationOf(records) EXCEPT !.totalPages = mocked]

\* fetchPage(p) up to its first await: acquire() runs its executor at once
StartFetchPage(s, tk, t) ==
    LET r == Acquire(s, t) IN
    [sem |-> r.sem,
     task |-> [tk EXCEPT ![t] = [NoTask EXCEPT !.pc = IF r.granted THEN "ready"
                                                      ELSE "waiting"]]]

RECURSIVE StartPagesButLast(_, _, _, _, _)
\* the loop with `page < pagination.totalPages`: the last page is left out
StartPagesButLast(s, tk, c, p, last) ==
    IF p >= last THEN [sem |-> s, task |-> tk]
    ELSE LET one == StartFetchPage(s, tk, <<c, p>>) IN
         StartPagesButLast(one.sem, one.task, c, p + 1, last)

RECURSIVE StartPages(_, _, _, _, _)
\* for (page = p; page <= last; page++) pagePromises.push(this.fetchPage(page))
StartPages(s, tk, c, p, last) ==
    IF p > last THEN [sem |-> s, task |-> tk]
    ELSE LET one == StartFetchPage(s, tk, <<c, p>>) IN
         StartPages(one.sem, one.task, c, p + 1, last)

RECURSIVE ConcatSettled(_, _)
\* the records of the pages `pages` of call c in the order in which their
\* fetches settled
ConcatSettled(c, pages) ==
    IF pages = {} THEN <<>>
    ELSE LET p == CHOOSE x \in pages :
                     \A y \in pages : task[<<c, x>>].rank <= task[<<c, y>>].rank
         IN  task[<<c, p>>].records \o ConcatSettled(c, pages \ {p})

\* the pages collected as they complete (results.push in each task) in place
\* of Promise.all's array by index
ConcatPagesByCompletion(c, p, last) == ConcatSettled(c, p..last)

RECURSIVE ConcatPages(_, _, _)
\* [firstPageRecords, ...remainingPages].flat(), pages p..last of call c
ConcatPages(c, p, last) ==
    IF p > last THEN <<>>
    ELSE task[<<c, p>>].records \o ConcatPages(c, p + 1, last)

\* getPage(p): return await this.fetchPage(p)
GetPage(c, p) ==
    /\ call[c].state = "idle"
    /\ <<"getPage", p>> \in may[c]
    /\ LET st == StartFetchPage(semaphore[inst[c]], task, <<c, p>>) IN
        /\ semaphore' = [semaphore EXCEPT ![inst[c]] = st.sem]
        /\ task' = st.task
    /\ call' = [call EXCEPT ![c].entry = "getPage", ![c].state = "page", ![c].page = p]
    /\ UNCHANGED <<gateVars, params, constructed, mocked, request, config, inst, may, pagination, batch, probe>>

\* getData() up to `await this.getFirstPage()`
GetData(c) ==
    /\ call[c].state = "idle"
    /\ <<"getData", 1>> \in may[c]
    /\ LET st == StartFetchPage(semaphore[inst[c]], task, <<c, 1>>) IN
        /\ semaphore' = [semaphore EXCEPT ![inst[c]] = st.sem]
        /\ task' = st.task
    /\ call' = [call EXCEPT ![c].entry = "getData", ![c].state = "firstPage", ![c].page = 1]
    /\ UNCHANGED <<gateVars, params, constructed, mocked, request, config, inst, may, pagination, batch, probe>>

\* getDataStream() and the consumer's first next(), up to
\* `await this.getFirstPage()`
GetDataStream(c) ==
    /\ call[c].state = "idle"
    /\ <<"getDataStream", 1>> \in may[c]
    /\ LET st == StartFetchPage(semaphore[inst[c]], task, <<c, 1>>) IN
        /\ semaphore' = [semaphore EXCEPT ![inst[c]] = st.sem]
        /\ task' = st.task
    /\ call' = [call EXCEPT ![c].entry = "getDataStream", ![c].state = "firstPage",
                            ![c].page = 1]
    /\ UNCHANGED <<gateVars, params, constructed, mocked, request, config, inst, may, pagination, batch, probe>>

\* pages 2..totalPages of getData, those of them that have failed, and the
\* one that failed first
LaterPages(c) == {<<c, p>> : p \in 2..call[c].totalPages}
FailedPages(c) == {t \in LaterPages(c) : task[t].pc = "failed"}
FirstFailed(c) ==
    CHOOSE u \in FailedPages(c) : \A v \in FailedPages(c) : task[u].rank <= task[v].rank

\* Promise.all with one catch per page: it waits for every page and resolves
\* with the records of the pages that succeeded
PromiseAllTolerant(c) ==
    IF \A u \in LaterPages(c) : Finished(u)
    THEN [settled |-> TRUE, ok |-> TRUE, error |-> NoError,
          value |-> ConcatPages(c, 2, call[c].totalPages)]
    ELSE [settled |-> FALSE, ok |-> FALSE, error |-> NoError, value |-> <<>>]

\* Promise.all(pagePromises): rejected with the error of the page that failed
\* first; resolved, when every page is done, with the pages' records by index
PromiseAll(c) ==
    IF FailedPages(c) # {}
    THEN [settled |-> TRUE, ok |-> FALSE, error |-> task[FirstFailed(c)].error,
          value |-> <<>>]
    ELSE IF \A u \in LaterPages(c) : task[u].pc = "done"
    THEN [settled |-> TRUE, ok |-> TRUE, error |-> NoError,
          value |-> ConcatPages(c, 2, call[c].totalPages)]
    ELSE [settled |-> FALSE, ok |-> FALSE, error |-> NoError, value |-> <<>>]

\* a rejection that takes back what the call had delivered
RejectedTakingBack(rec, error) ==
    [rec EXCEPT !.state = "rejected", !.error = error, !.yielded = <<>>]

\* the awaited fetch threw inside getPage, getFirstPage or the loop of
\* getDataStream: the call ends with that error; what a getDataStream
\* has yielded is with the consumer
Rejected(rec, error) == [rec EXCEPT !.state = "rejected", !.error = error]

\* the promise a call awaits has settled: the code after the await takes
\* what the promise settled with.
\* `await Promise.all(pagePromises)` rejects when the first page fails, with
\* that page's error, and resolves when every page is done.
Continue(c) ==
    LET t == <<c, call[c].page>> IN
    /\ call[c].state \in {"page", "firstPage", "streamPage", "pages"}
    /\ IF call[c].state = "pages" THEN PromiseAll(c).settled ELSE Finished(t)
    /\ IF call[c].state = "pages"
       THEN /\ IF PromiseAll(c).ok
               THEN \* [firstPageRecords, ...remainingPages].flat()
                    call' = [call EXCEPT ![c].state = "resolved",
                                         ![c].records =
                                            call[c].first \o PromiseAll(c).value]
               ELSE \* the catch clause rethrows the error
                    call' = [call EXCEPT ![c].state = "rejected",
                                         ![c].first = <<>>,
                                         ![c].error = PromiseAll(c).error]
            /\ pagination' = [pagination EXCEPT ![inst[c]] =
                                PaginationAfterPage(@, PromiseAll(c).value)]
            /\ UNCHANGED <<semaphore, task>>
       ELSE IF task[t].pc = "failed"
       THEN \* the error propagates: getData's catch rethrows it as it is
            /\ call' = [call EXCEPT ![c] = Rejected(@, task[t].error)]
            /\ task' = [task EXCEPT ![t] = NoTask]
            /\ UNCHANGED <<semaphore, pagination>>
       ELSE IF call[c].state = "page"
       THEN /\ call' = [call EXCEPT ![c].state = "resolved", ![c].records = task[t].records]
            /\ task' = [task EXCEPT ![t] = NoTask]
            /\ pagination' = [pagination EXCEPT ![inst[c]] =
                                PaginationAfterPage(@, task[t].records)]
            /\ UNCHANGED semaphore
       ELSE IF call[c].state = "streamPage"
       THEN /\ call' = [call EXCEPT ![c].state = "suspended",
                                    ![c].yielded = Append(@, task[t].records)]
            /\ task' = [task EXCEPT ![t] = NoTask]
            /\ pagination' = [pagination EXCEPT ![inst[c]] =
                                PaginationAfterPage(@, task[t].records)]
            /\ UNCHANGED semaphore
       ELSE \* getFirstPage: this.metadata.pagination = pagination
            LET pg == PaginationRead(task[t].records) IN
            /\ pagination' = [pagination EXCEPT ![inst[c]] = pg]
            /\ IF call[c].entry = "getDataStream"
               THEN /\ call' = [call EXCEPT ![c].state = "suspended",
                                            ![c].totalPages = pg.totalPages,
                                            ![c].yielded = Append(@, task[t].records)]
                    /\ task' = [task EXCEPT ![t] = NoTask]
                    /\ UNCHANGED semaphore
               ELSE IF pg.totalPages <= 1
               THEN /\ call' = [call EXCEPT ![c].state = "resolved",
                                            ![c].totalPages = pg.totalPages,
                                            ![c].records = task[t].records]
                    /\ task' = [task EXCEPT ![t] = NoTask]
                    /\ UNCHANGED semaphore
               ELSE LET st == StartPages(semaphore[inst[c]],
                                         [task EXCEPT ![t] = NoTask], c, 2,
                                         pg.totalPages) IN
                    /\ semaphore' = [semaphore EXCEPT ![inst[c]] = st.sem]
                    /\ task' = st.task
                    /\ call' = [call EXCEPT ![c].state = "pages",
                                            ![c].totalPages = pg.totalPages,
                                            ![c].first = task[t].records]
    /\ batch' = TaskSettled(batch, c, call'[c].state)
    /\ UNCHANGED <<gateVars, params, constructed, mocked, request, config, inst, may, probe>>

\* the for loop of getDataStream with `page < pagination.totalPages`
StreamNextButLast(c) ==
    /\ call[c].state = "suspended"
    /\ IF call[c].page + 1 < call[c].totalPages
       THEN LET st == StartFetchPage(semaphore[inst[c]], task, <<c, call[c].page + 1>>) IN
            /\ semaphore' = [semaphore EXCEPT ![inst[c]] = st.sem]
            /\ task' = st.task
            /\ call' = [call EXCEPT ![c].state = "streamPage", ![c].page = @ + 1]
       ELSE /\ call' = [call EXCEPT ![c].state = "resolved"]
            /\ UNCHANGED <<semaphore, task>>
    /\ UNCHANGED <<gateVars, params, constructed, mocked, request, config, inst, may, pagination, batch, probe>>

\* the consumer calls next() on a suspended getDataStream: the for loop
\* fetches the next page, or ends after the last one
StreamNext(c) ==
    /\ call[c].state = "suspended"
    /\ IF call[c].page + 1 <= call[c].totalPages
       THEN LET st == StartFetchPage(semaphore[inst[c]], task, <<c, call[c].page + 1>>) IN
            /\ semaphore' = [semaphore EXCEPT ![inst[c]] = st.sem]
            /\ task' = st.task
            /\ call' = [call EXCEPT ![c].state = "streamPage", ![c].page = @ + 1]
       ELSE /\ call' = [call EXCEPT ![c].state = "resolved"]
            /\ UNCHANGED <<semaphore, task>>
    /\ UNCHANGED <<gateVars, params, constructed, mocked, request, config, inst, may, pagination, batch, probe>>

\* ------------------------------------------------------- specifications
\* new FPDSRequest(params, cfg) for every object named by `on`; `calls` are
\* the public calls that can be made, `on` the object each is made on and
\* `entries` the entry points and pages each may be made with
NewRequests(calls, on, entries, cfg) ==
    /\ params = NoParams
    /\ constructed = Constructed
    /\ config = cfg
    /\ inst = [c \in calls |-> on[c]]
    /\ may = [c \in calls |-> entries[c]]
    /\ semaphore = [i \in {on[c] : c \in calls} |-> NewSemaphore(cfg.threadCount)]
    /\ pagination = [i \in {on[c] : c \in calls} |-> NoPagination]
    /\ call = [c \in calls |-> NoCall]
    /\ task = [t \in calls \X Pages |-> NoTask]
    /\ batch = NoBatch

Configs(retries) ==
    [threadCount : 1..MaxThreads, retryAttempts : retries, retryDelay : {DefaultRetryDelay}]

\* the steps of the fetchPage invocations
FetchNext ==
    \/ \E t \in DOMAIN task : IssueRequest(t)
    \/ \E t \in DOMAIN task, st \in Statuses : ResponseArrives(t, st)
    \/ \E t \in DOMAIN task : RequestTimesOut(t)
    \/ \E t \in DOMAIN task : ConnectionFails(t)
    \/ \E t \in DOMAIN task, xml \in Bodies : BodyArrives(t, xml)
    \/ \E t \in DOMAIN task : BodyFails(t)
    \/ \E t \in DOMAIN task : BackoffElapsed(t)

\* the steps of the public calls
CallNext ==
    \/ \E c \in DOMAIN call, p \in Pages : GetPage(c, p)
    \/ \E c \in DOMAIN call : GetData(c)
    \/ \E c \in DOMAIN call : GetDataStream(c)
    \/ \E c \in DOMAIN call : Continue(c)
    \/ \E c \in DOMAIN call : StreamNext(c)

\* getData(), getPage(MaxPage) and getDataStream(), one call of each
EntryPoints ==
    <<{<<"getData", 1>>}, {<<"getPage", MaxPage>>}, {<<"getDataStream", 1>>}>>
AnyEntry ==
    {<<"getData", 1>>, <<"getDataStream", 1>>} \cup {<<"getPage", p>> : p \in Pages}

\* one FPDSRequest object with the default retry settings on which a
\* getData, a getPage and a getDataStream call run at the same time
Init ==
    /\ GateStart(1)
    /\ mocked = 0
    /\ request = NoRequest
    /\ \E cfg \in Configs({DefaultRetryAttempts}) :
          NewRequests(DOMAIN EntryPoints, [c \in DOMAIN EntryPoints |-> 1],
                      EntryPoints, cfg)
    /\ probe = [state |-> "idle"]

Next == FetchNext \/ CallNext

Spec == Init /\ [][Next]_vars

\* one FPDSRequest object, one public call, every retryAttempts up to MaxRetry
InitRetry ==
    /\ GateStart(1)
    /\ mocked = 0
    /\ request = NoRequest
    /\ \E cfg \in Configs(1..MaxRetry) : NewRequests({1}, <<1>>, <<AnyEntry>>, cfg)
    /\ probe = [state |-> "idle"]

SpecRetry == InitRetry /\ [][Next]_vars

\* retryAttempts tried around zero
RetriesAroundZero == (0 - 1)..2

\* one FPDSRequest object with a retryAttempts of -1, 0, 1 or 2, on which
\* getData and one of getPage(1) and getDataStream are called
InitNoRetry ==
    /\ GateStart(1)
    /\ mocked = 0
    /\ request = NoRequest
    /\ \E cfg \in Configs(RetriesAroundZero) :
          NewRequests({1, 2}, <<1, 1>>,
                      <<{<<"getData", 1>>}, {<<"getPage", 1>>, <<"getDataStream", 1>>}>>,
                      cfg)
    /\ probe = [state |-> "idle"]

SpecNoRetry == InitNoRetry /\ [][Next]_vars

\* ------------------------------------------- a mocked PaginationState
\* getData() or getDataStream() on one FPDSRequest object whose first page
\* reports more than one page: the PaginationState is mocked, since
\* getFirstPage itself always sets totalPages to 1
InitPages ==
    /\ GateStart(1)
    /\ mocked \in 2..MaxPage
    /\ request = NoRequest
    /\ \E cfg \in Configs({2}) :
          NewRequests({1}, <<1>>, <<{<<"getData", 1>>, <<"getDataStream", 1>>}>>, cfg)
    /\ probe = [state |-> "idle"]

NextPages ==
    \/ FetchNext
    \/ \E c \in DOMAIN call : GetData(c)
    \/ \E c \in DOMAIN call : GetDataStream(c)
    \/ \E c \in DOMAIN call : Continue(c)
    \/ \E c \in DOMAIN call : StreamNext(c)

SpecPages == InitPages /\ [][NextPages]_vars

\* getData() or getDataStream() over two pages (a mocked PaginationState) and
\* getPage(2), at the same time on one FPDSRequest object
InitLater ==
    /\ GateStart(1)
    /\ mocked = 2
    /\ request = NoRequest
    /\ \E cfg \in Configs({2}) :
          NewRequests({1, 2}, <<1, 1>>,
                      <<{<<"getData", 1>>, <<"getDataStream", 1>>}, {<<"getPage", 2>>}>>,
                      cfg)
    /\ probe = [state |-> "idle"]

SpecLater == InitLater /\ [][Next]_vars

\* ------------------------------------------------- new FPDSRequest(params)
\* Strings tried as parameter values.  Good* follow the documented format of
\* their field, Bad* do not.
\* "[2022/01/01, 2024/12/31]"
GoodDates ==
    {<<"[", "2", "0", "2", "2", "/", "0", "1", "/", "0", "1", ",", " ", "2", "0", "2", "4", "/", "1", "2", "/", "3", "1", "]">>}
\* "[2022/01/01,2024/12/31]": the documented form without its blank
LooseDates ==
    {<<"[", "2", "0", "2", "2", "/", "0", "1", "/", "0", "1", ",", "2", "0", "2", "4", "/", "1", "2", "/", "3", "1", "]">>}
\* "2022/01/01-2024/12/31" and "[2022/1/1, 2024/12/31]"
BadDates ==
    {<<"2", "0", "2", "2", "/", "0", "1", "/", "0", "1", "-", "2", "0", "2", "4", "/", "1", "2", "/", "3", "1">>,
     <<"[", "2", "0", "2", "2", "/", "1", "/", "1", ",", " ", "2", "0", "2", "4", "/", "1", "2", "/", "3", "1", "]">>}
\* "W91"
GoodPIIDs ==
    {<<"W", "9", "1">>}
\* "" and "  "
BadPIIDs ==
    {<<>>,
     <<" ", " ">>}
\* "541511"
GoodNAICS ==
    {<<"5", "4", "1", "5", "1", "1">>}
\* "54151" and "54151a"
BadNAICS ==
    {<<"5", "4", "1", "5", "1">>,
     <<"5", "4", "1", "5", "1", "a">>}
\* "R425"
GoodPSC ==
    {<<"R", "4", "2", "5">>}
\* "r425" and "R4256"
BadPSC ==
    {<<"r", "4", "2", "5">>,
     <<"R", "4", "2", "5", "6">>}
\* "9700"
GoodAgency ==
    {<<"9", "7", "0", "0">>}
\* "970" and "97A0"
BadAgency ==
    {<<"9", "7", "0">>,
     <<"9", "7", "A", "0">>}

\* the strings tried for a key
GoodFor(key) ==
    CASE key \in DateKeys -> GoodDates
      [] key \in PIIDKeys -> GoodPIIDs
      [] key \in NAICSKeys -> GoodNAICS
      [] key \in PSCKeys -> GoodPSC
      [] key \in AgencyKeys -> GoodAgency
      [] OTHER -> {<<"x">>}
BadFor(key) ==
    CASE key \in DateKeys -> BadDates
      [] key \in PIIDKeys -> BadPIIDs
      [] key \in NAICSKeys -> BadNAICS
      [] key \in PSCKeys -> BadPSC
      [] key \in AgencyKeys -> BadAgency
      [] OTHER -> {}
LooseFor(key) == IF key \in DateKeys THEN LooseDates ELSE {}

\* the keys tried: every case of the switch and a key it has no case for
Keys ==
    DateKeys \cup PIIDKeys \cup NAICSKeys \cup PSCKeys \cup AgencyKeys \cup {"VENDOR_NAME"}

\* the values tried for a key: undefined, strings, and lists of one string
ValuesFor(key) ==
    LET strings == GoodFor(key) \cup LooseFor(key) \cup BadFor(key) IN
    {Undefined} \cup {Str(x) : x \in strings} \cup {List(<<x>>) : x \in BadFor(key)}

\* Object.entries(params) of the parameter objects tried: one entry, or two
\* entries with different keys, in either order
Entries == {<<key, value>> : key \in Keys, value \in UNION {ValuesFor(k) : k \in Keys}}
EntriesTried == {e \in Entries : e[2] \in ValuesFor(e[1])}
ParamsTried ==
    {<<e>> : e \in EntriesTried}
        \cup {<<e, f>> : e \in EntriesTried, f \in EntriesTried}

\* new FPDSRequest(params, config): the fields are set, validateSearchParams
\* runs and, when it throws, the constructor throws and no object exists
Construct ==
    /\ constructed.state = "pending"
    /\ LET v == validateSearchParams(params) IN
        IF v.ok
        THEN /\ constructed' = ConstructedFrom(params)
             /\ inst' = <<1>>
             /\ may' = <<{<<"getData", 1>>}>>
             /\ semaphore' = <<NewSemaphore(config.threadCount)>>
             /\ pagination' = <<NoPagination>>
             /\ call' = <<NoCall>>
             /\ task' = [t \in {1} \X Pages |-> NoTask]
        ELSE /\ constructed' = Threw(v.error)
             /\ UNCHANGED <<inst, may, semaphore, pagination, call, task>>
    /\ UNCHANGED <<gateVars, params, mocked, request, config, batch, probe>>

\* a caller about to run new FPDSRequest(params, config) and then getData()
InitConstruct ==
    /\ GateStart(1)
    /\ params \in {ps \in ParamsTried : Len(ps) = 1 \/ ps[1][1] # ps[2][1]}
    /\ constructed = NotConstructed
    /\ mocked = 0
    /\ request = NoRequest
    /\ config = [threadCount |-> 1, retryAttempts |-> 2, retryDelay |-> DefaultRetryDelay]
    /\ inst = <<>>
    /\ may = <<>>
    /\ semaphore = <<>>
    /\ pagination = <<>>
    /\ call = <<>>
    /\ task = <<>>
    /\ batch = NoBatch
    /\ probe = [state |-> "idle"]

NextConstruct ==
    \/ Construct
    \/ FetchNext
    \/ \E c \in DOMAIN call : GetData(c)
    \/ \E c \in DOMAIN call : Continue(c)

SpecConstruct == InitConstruct /\ [][NextConstruct]_vars

\* The constructor keeps the caller's object itself (`this.params = params`),
\* so an assignment the caller makes afterwards, params[name] = value, is an
\* assignment to this.params.  One such assignment is tried, of any other
\* value tried for a name the object has.
MutateParams ==
    /\ constructed.state = "returned"
    /\ params = constructed.validated
    /\ \E i \in 1..Len(params) :
        \E value \in ValuesFor(params[i][1]) \ {params[i][2]} :
            params' = SetField(params, params[i][1], value)
    /\ UNCHANGED <<gateVars, constructed, mocked, request, config, inst, may,
                   semaphore, pagination, call, task, batch, probe>>

\* a caller that builds a request from one parameter and keeps the object
InitMutate ==
    /\ GateStart(1)
    /\ params \in {ps \in ParamsTried :
                        Len(ps) = 1 /\ ps[1][1] \in {"PIID", "LAST_MOD_DATE"}}
    /\ constructed = NotConstructed
    /\ mocked = 0
    /\ request = NoRequest
    /\ config = [threadCount |-> 1, retryAttempts |-> 2, retryDelay |-> DefaultRetryDelay]
    /\ inst = <<>>
    /\ may = <<>>
    /\ semaphore = <<>>
    /\ pagination = <<>>
    /\ call = <<>>
    /\ task = <<>>
    /\ batch = NoBatch
    /\ probe = [state |-> "idle"]

NextMutate ==
    \/ Construct
    \/ MutateParams
    \/ FetchNext
    \/ \E c \in DOMAIN call : GetData(c)
    \/ \E c \in DOMAIN call : Continue(c)

SpecMutate == InitMutate /\ [][NextMutate]_vars

\* ------------------------------------------------------- searchContracts
Contracts == 1..MaxContracts

\* contract numbers tried: "W91", "W92", ... pass validatePIID, "  " does not
ContractDigits == <<"1", "2", "3", "4", "5", "6", "7", "8", "9">>
ContractNumber(c) == <<"W", "9", ContractDigits[c]>>
BlankContractNumber == <<" ", " ">>

\* the metadata tried: { batch: "b1", source_contract_number: "old" }
MetadataTried ==
    {[batch |-> <<"b", "1">>, source_contract_number |-> <<"o", "l", "d">>]}

\* "2022/01/01-2024/12/31"
DashedDate ==
    <<"2", "0", "2", "2", "/", "0", "1", "/", "0", "1", "-", "2", "0", "2", "4", "/", "1", "2", "/", "3", "1">>

\* the requests tried: contract number c is "W9c" or blank, dateRange is
\* absent, well-formed or "2022/01/01-2024/12/31", metadata is absent or given
RequestsTried ==
    {[contracts |-> cs, dateRange |-> d, metadata |-> m] :
        cs \in {x \in [Contracts -> {BlankContractNumber} \cup {ContractNumber(c) : c \in Contracts}] :
                    \A c \in Contracts : x[c] \in {BlankContractNumber, ContractNumber(c)}},
        d \in {Undefined, Str(DashedDate)} \cup {Str(x) : x \in GoodDates},
        m \in {NoMetadata} \cup {Metadata(x) : x \in MetadataTried}}

\* searchContracts(request, config) up to `await Promise.all(tasks)`: for
\* each contract number, in order, the task body up to its first await.
\* new FPDSRequest(...) stands outside the try block: when it throws, the
\* promise of the task is rejected with what it threw; else getData() is
\* called and runs up to its first await.
SearchContracts ==
    /\ batch.state = "idle"
    /\ \A c \in DOMAIN call : inst[c] = c /\ call[c].state = "idle"
    /\ LET v(c) == validateSearchParams(SearchParams(c))
           st(c) == StartFetchPage(semaphore[c], task, <<c, 1>>) IN
        /\ semaphore' = [c \in DOMAIN semaphore |->
                            IF v(c).ok THEN st(c).sem ELSE semaphore[c]]
        /\ task' = [t \in DOMAIN task |->
                        IF v(t[1]).ok THEN st(t[1]).task[t] ELSE task[t]]
        /\ call' = [c \in DOMAIN call |->
                      IF v(c).ok
                      THEN [call[c] EXCEPT !.entry = "getData", !.state = "firstPage",
                                           !.page = 1]
                      ELSE call[c]]
        /\ batch' = [batch EXCEPT !.state = "running",
                                  !.thrown = [c \in DOMAIN call |-> v(c).error],
                                  !.settled = LET threw(c) == ~v(c).ok IN
                                              SelectSeq([c \in DOMAIN call |-> c], threw)]
    /\ UNCHANGED <<gateVars, params, constructed, mocked, request, config, inst, may, pagination, probe>>

\* { ...request.metadata, source_contract_number: contractNumber }
SourceMetadata(metadata, contractNumber) ==
    [k \in DOMAIN metadata \cup {"source_contract_number"} |->
        IF k = "source_contract_number" THEN contractNumber ELSE metadata[k]]

\* { ...record, source_metadata: ... }: a record <<call, page, index>> that
\* has a source_metadata carries it as a fourth component
WithSourceMetadata(record, sourceMetadata) == <<record[1], record[2], record[3], sourceMetadata>>

\* a task that stamps every record with the first contract number of the request
TaskResultFirstNumber(c) ==
    IF call[c].state # "resolved" THEN <<>>
    ELSE IF request.metadata.given
    THEN [i \in 1..Len(call[c].records) |->
            WithSourceMetadata(call[c].records[i],
                SourceMetadata(request.metadata.value, request.contracts[1]))]
    ELSE call[c].records

\* what the promise of the task of contract number c is fulfilled with once
\* its getData() has settled: the records, each with source_metadata when the
\* request has metadata, or [] from the catch clause when getData() threw
TaskResult(c) ==
    IF call[c].state # "resolved" THEN <<>>
    ELSE IF request.metadata.given
    THEN [i \in 1..Len(call[c].records) |->
            WithSourceMetadata(call[c].records[i],
                SourceMetadata(request.metadata.value, request.contracts[c]))]
    ELSE call[c].records

RECURSIVE FlatUntilFailure(_, _)
\* a batch that stops collecting at the first query that failed
FlatUntilFailure(c, last) ==
    IF c > last \/ call[c].state # "resolved" THEN <<>>
    ELSE call[c].records \o FlatUntilFailure(c + 1, last)

RECURSIVE FlatBySettling(_, _)
\* a batch that collects the results of the tasks in the order in which
\* they settled
FlatBySettling(k, last) ==
    IF k > last \/ k > Len(batch.settled) THEN <<>>
    ELSE (IF call[batch.settled[k]].state # "resolved" THEN <<>>
          ELSE call[batch.settled[k]].records)
            \o FlatBySettling(k + 1, last)

RECURSIVE Flat(_, _)
\* results.flat() over the queries c..MaxContracts; a query that threw
\* was turned into [] by the catch clause of its task
Flat(c, last) ==
    IF c > last THEN <<>>
    ELSE TaskResult(c) \o Flat(c + 1, last)

\* the tasks whose promise is rejected: those whose constructor threw
RejectedTasks == {c \in DOMAIN batch.thrown : batch.thrown[c].kind # "none"}

\* `await Promise.all(tasks)` and the return: Promise.all rejects as soon as
\* one task is rejected, with the error of the first task rejected (the
\* constructors ran in the order of the contract numbers), and searchContracts
\* has no catch clause around it; else it resolves when every task is
\* fulfilled
AwaitAll ==
    IF RejectedTasks # {}
    THEN [state |-> "rejected", records |-> <<>>,
          error |-> batch.thrown[CHOOSE c \in RejectedTasks :
                                    \A d \in RejectedTasks : c <= d],
          thrown |-> batch.thrown, settled |-> batch.settled]
    ELSE [state |-> "resolved", records |-> Flat(1, MaxContracts), error |-> NoError,
          thrown |-> batch.thrown, settled |-> batch.settled]

\* the promise searchContracts returned settles
BatchSettles ==
    /\ batch.state = "running"
    /\ RejectedTasks = {} =>
          \A c \in DOMAIN call : call[c].state \in {"resolved", "rejected"}
    /\ batch' = AwaitAll
    /\ UNCHANGED <<gateVars, params, constructed, mocked, request, config, inst, may, semaphore, pagination, call, task, probe>>

\* one searchContracts call over MaxContracts good contract numbers, without
\* dateRange and metadata, with { threadCount: 1 }: one FPDSRequest object per
\* contract number, all with the same config
InitBatch ==
    /\ GateStart(1)
    /\ mocked = 0
    /\ request = [contracts |-> [c \in Contracts |-> ContractNumber(c)],
                  dateRange |-> Undefined, metadata |-> NoMetadata]
    /\ \E cfg \in Configs({DefaultRetryAttempts}) :
          /\ cfg.threadCount = 1
          /\ NewRequests(Contracts, [c \in Contracts |-> c],
                         [c \in Contracts |-> {}], cfg)
    /\ probe = [state |-> "idle"]

NextBatch ==
    \/ SearchContracts
    \/ FetchNext
    \/ \E c \in DOMAIN call : Continue(c)
    \/ BatchSettles

SpecBatch == InitBatch /\ [][NextBatch]_vars

\* one searchContracts call with each of the requests tried, two tries per
\* request
InitSearch ==
    /\ GateStart(1)
    /\ mocked = 0
    /\ request \in RequestsTried
    /\ NewRequests(Contracts, [c \in Contracts |-> c], [c \in Contracts |-> {}],
                   [threadCount |-> 1, retryAttempts |-> 2,
                    retryDelay |-> DefaultRetryDelay])
    /\ probe = [state |-> "idle"]

SpecSearch == InitSearch /\ [][NextBatch]_vars

\* a step of the fetchPage invocation t
FetchStep(t) ==
    \/ IssueRequest(t)
    \/ \E st \in Statuses : ResponseArrives(t, st)
    \/ RequestTimesOut(t)
    \/ ConnectionFails(t)
    \/ \E xml \in Bodies : BodyArrives(t, xml)
    \/ BodyFails(t)
    \/ BackoffElapsed(t)

\* the searchContracts call is made, every HTTP call ends (with a response
\* and its body, a failure or a timeout), every timer fires and every
\* continuation that can run does run
SpecSearchLive ==
    /\ SpecSearch
    /\ WF_vars(SearchContracts)
    /\ \A t \in Contracts \X Pages : WF_vars(FetchStep(t))
    /\ \A c \in Contracts : WF_vars(Continue(c))
    /\ WF_vars(BatchSettles)

\* ------------------------------------------------- makeRequest on its own
\* status codes of every class
AllStatuses == {200, 201, 204, 299, 300, 304, 400, 401, 404, 429, 500, 503}
AllFetchEvents ==
    {[type |-> "response", status |-> st] : st \in AllStatuses}
        \cup {[type |-> "abort", status |-> 0], [type |-> "reject", status |-> 0]}

\* a makeRequest call, number n of its retry loop, and what will settle its
\* fetch() and its response.text()
InitProbe ==
    /\ GateStart(1)
    /\ mocked = 0
    /\ request = NoRequest
    /\ NewRequests({}, <<>>, <<>>, [threadCount |-> 1, retryAttempts |-> MaxRetry,
                                   retryDelay |-> DefaultRetryDelay])
    /\ \E f \in AllFetchEvents, x \in TextEvents, n \in 1..MaxRetry :
          probe = [state |-> "pending", fetch |-> f, text |-> x, n |-> n]

\* the call runs to its end
MakeRequestSettles ==
    /\ probe.state = "pending"
    /\ probe' = [state |-> "settled", fetch |-> probe.fetch, text |-> probe.text,
                 n |-> probe.n,
                 out |-> MakeRequest(probe.fetch, probe.text, probe.n)]
    /\ UNCHANGED <<gateVars, params, constructed, mocked, request, config, inst, may, semaphore, pagination, call, task, batch>>

SpecMakeRequest == InitProbe /\ [][MakeRequestSettles]_vars

\* -------------------------------------------- buildSearchUrl on its own
\* characters of the values tried: a letter, a blank and characters that
\* have a meaning in a query string
UrlChars == {"A", " ", ",", "&", "=", "+", "%"}
\* the strings over UrlChars of one to n characters
UrlStrings(n) == UNION {[1..k -> UrlChars] : k \in 1..n}

\* parameter names tried
NamePIID == <<"P", "I", "I", "D">>
NameVendor == <<"V", "E", "N", "D", "O", "R", "_", "N", "A", "M", "E">>
NameDate == <<"L", "A", "S", "T", "_", "M", "O", "D", "_", "D", "A", "T", "E">>

\* the parameter objects tried, as Object.entries lists them: one filter that
\* is a string of up to MaxChars characters or a list of one or two
\* one-character strings, or a string filter together with a date range
UrlParamsTried ==
    {<<<<NamePIID, Str(x)>>>> : x \in UrlStrings(MaxChars)}
        \cup {<<<<NamePIID, List(<<x>>)>>>> : x \in UrlStrings(1)}
        \cup {<<<<NamePIID, List(<<x, y>>)>>>> : x \in UrlStrings(1), y \in UrlStrings(1)}
        \cup {<<<<NameVendor, Str(x)>>, <<NameDate, Str(d)>>>> :
                x \in UrlStrings(1), d \in GoodDates}

\* a caller about to read the searchUrl of a request built from these params
InitUrl ==
    /\ GateStart(1)
    /\ mocked = 0
    /\ request = NoRequest
    /\ NewRequests({}, <<>>, <<>>, [threadCount |-> 1, retryAttempts |-> 1,
                                   retryDelay |-> DefaultRetryDelay])
    /\ \E ps \in UrlParamsTried : probe = [state |-> "pending", params |-> ps]

\* buildSearchUrl() returns
BuildSearchUrlReturns ==
    /\ probe.state = "pending"
    /\ probe' = [state |-> "settled", params |-> probe.params,
                 out |-> buildSearchUrl(probe.params)]
    /\ UNCHANGED <<gateVars, params, constructed, mocked, request, config, inst, may, semaphore, pagination, call, task, batch>>

SpecUrl == InitUrl /\ [][BuildSearchUrlReturns]_vars

\* -------------------------------------- generateContractHash on its own
\* createHash('sha256').update(text).digest('hex'), taken as collision-free:
\* the digest of a text is named by the text
Sha256Hex(text) == [sha256 |-> text]

\* generateContractHash: the digest of `${contractNumber}:${awardDate}`
generateContractHash(contractNumber, awardDate) ==
    Sha256Hex(contractNumber \o <<":">> \o awardDate)

\* the arguments tried: the strings over "x" and ":" of up to MaxChars characters
HashStrings == UNION {[1..k -> {"x", ":"}] : k \in 0..MaxChars}

\* two calls of generateContractHash about to be made
InitHash ==
    /\ GateStart(1)
    /\ mocked = 0
    /\ request = NoRequest
    /\ NewRequests({}, <<>>, <<>>, [threadCount |-> 1, retryAttempts |-> 1,
                                   retryDelay |-> DefaultRetryDelay])
    /\ \E a \in HashStrings, b \in HashStrings, c \in HashStrings, d \in HashStrings :
          probe = [state |-> "pending", first |-> <<a, b>>, second |-> <<c, d>>]

\* both calls return
GenerateContractHashReturns ==
    /\ probe.state = "pending"
    /\ probe' = [state |-> "settled", first |-> probe.first, second |-> probe.second,
                 out |-> <<generateContractHash(probe.first[1], probe.first[2]),
                           generateContractHash(probe.second[1], probe.second[2])>>]
    /\ UNCHANGED <<gateVars, params, constructed, mocked, request, config, inst, may, semaphore, pagination, call, task, batch>>

SpecHash == InitHash /\ [][GenerateContractHashReturns]_vars

\* ---------------------------------------------------------- FPDSFieldMapper
\* !value
Falsy(value) ==
    \/ value.type \in {"undefined", "null", "NaN"}
    \/ value = Str(<<>>)
    \/ value = Zero
    \/ value = Bool(FALSE)

RECURSIVE CountDigits(_, _)
\* the length of the run of digits of s that starts at position i
CountDigits(s, i) ==
    IF i >= 1 /\ i <= Len(s) /\ s[i] \in Digit THEN 1 + CountDigits(s, i + 1) ELSE 0

RECURSIVE DigitsValue(_)
\* the number a run of digits denotes
DigitsValue(digits) ==
    IF digits = <<>> THEN 0
    ELSE 10 * DigitsValue(SubSeq(digits, 1, Len(digits) - 1))
            + DigitValue(digits[Len(digits)])

RECURSIVE TrimZeros(_)
\* the digits of a fraction without the zeros at its end
TrimZeros(digits) ==
    IF digits # <<>> /\ digits[Len(digits)] = "0"
    THEN TrimZeros(SubSeq(digits, 1, Len(digits) - 1))
    ELSE digits

\* the decimal numeral at the start of a text, after leading white space:
\* sign, digits, "." and digits; `to` is the position after it, 0 when the
\* text does not start with a numeral
LeadingNumeral(s) ==
    LET i == SkipSpace(s, 1)
        signed == i <= Len(s) /\ s[i] \in {"+", "-"}
        j == IF signed THEN i + 1 ELSE i
        n1 == CountDigits(s, j)
        dot == CharAt(s, j + n1, ".")
        n2 == IF dot THEN CountDigits(s, j + n1 + 1) ELSE 0
    IN [neg |-> signed /\ s[i] = "-",
        whole |-> SubSeq(s, j, j + n1 - 1),
        frac |-> SubSeq(s, j + n1 + 1, j + n1 + n2),
        to |-> IF n1 = 0 /\ n2 = 0 THEN 0
               ELSE IF n1 > 0 /\ ~dot THEN j + n1
               ELSE j + n1 + 1 + n2]

\* parseFloat(value): the numeral a string starts with, characters after it
\* are ignored; a number is itself; NaN for any other value
parseFloat(value) ==
    IF value.type = "string"
    THEN LET n == LeadingNumeral(value.chars) IN
         IF n.to = 0 THEN NaN
         ELSE Num(n.neg, DigitsValue(n.whole), TrimZeros(n.frac))
    ELSE IF value.type = "number" THEN value
    ELSE NaN

\* parseInt(value, 10): the run of digits a string starts with, after white
\* space and a sign; the whole part of a number
parseInt(value) ==
    IF value.type = "string"
    THEN LET n == LeadingNumeral(value.chars) IN
         IF n.whole = <<>> THEN NaN
         ELSE Num(n.neg, DigitsValue(n.whole), <<>>)
    ELSE IF value.type = "number" THEN Num(value.neg, value.whole, <<>>)
    ELSE NaN

\* parseFloatSafe and parseIntSafe
parseFloatSafe(value) ==
    IF Falsy(value) THEN Zero
    ELSE IF parseFloat(value).type = "NaN" THEN Zero ELSE parseFloat(value)
parseIntSafe(value) ==
    IF Falsy(value) THEN Zero
    ELSE IF parseInt(value).type = "NaN" THEN Zero ELSE parseInt(value)

\* convertBooleanToString
convertBooleanToString(value) ==
    IF value.type = "boolean"
    THEN (IF value.value THEN Str(<<"Y", "e", "s">>) ELSE Str(<<"N", "o">>))
    ELSE IF value = Str(<<"t", "r", "u", "e">>) THEN Str(<<"Y", "e", "s">>)
    ELSE Str(<<"N", "o">>)

\* the fields of mapRecord that are read from one path-key, in the order of
\* the object literal, with the coercion each applies
FieldTable ==
    <<
      [field |-> "contract_number", kind |-> "string",
       key |-> "content__award__awardID__awardContractID__PIID"],
      [field |-> "title", kind |-> "string",
       key |-> "title"],
      [field |-> "link", kind |-> "string",
       key |-> "link__href"],
      [field |-> "award_date", kind |-> "string",
       key |-> "content__award__relevantContractDates__signedDate"],
      [field |-> "award_amount", kind |-> "float",
       key |-> "content__award__dollarValues__obligatedAmount"],
      [field |-> "total_potential_value", kind |-> "float",
       key |-> "content__award__dollarValues__baseAndAllOptionsValue"],
      [field |-> "contract_type", kind |-> "string",
       key |-> "content__award__contractData__contractActionType__description"],
      [field |-> "project_description", kind |-> "string",
       key |-> "content__award__contractData__descriptionOfContractRequirement"],
      [field |-> "naics_code", kind |-> "string",
       key |-> "content__award__productOrServiceInformation__principalNAICSCode"],
      [field |-> "naics_description", kind |-> "string",
       key |-> "content__award__productOrServiceInformation__principalNAICSCode__description"],
      [field |-> "psc_code", kind |-> "string",
       key |-> "content__award__productOrServiceInformation__productOrServiceCode"],
      [field |-> "psc_description", kind |-> "string",
       key |-> "content__award__productOrServiceInformation__productOrServiceCode__description"],
      [field |-> "contracting_agency", kind |-> "string",
       key |-> "content__award__purchaserInformation__contractingOfficeAgencyID__name"],
      [field |-> "contracting_office_code", kind |-> "string",
       key |-> "content__award__purchaserInformation__contractingOfficeID"],
      [field |-> "contracting_office_name", kind |-> "string",
       key |-> "content__award__purchaserInformation__contractingOfficeID__name"],
      [field |-> "vendor_name", kind |-> "string",
       key |-> "content__award__vendor__vendorHeader__vendorName"],
      [field |-> "vendor_uei", kind |-> "string",
       key |-> "content__award__vendor__vendorSiteDetails__entityIdentifiers__vendorUEIInformation__UEI"],
      [field |-> "business_size", kind |-> "string",
       key |-> "content__award__vendor__contractingOfficerBusinessSizeDetermination__description"],
      [field |-> "vendor_city", kind |-> "string",
       key |-> "content__award__vendor__vendorSiteDetails__vendorLocation__city"],
      [field |-> "vendor_state", kind |-> "string",
       key |-> "content__award__vendor__vendorSiteDetails__vendorLocation__state"],
      [field |-> "sdvosb_status", kind |-> "boolean",
       key |-> "content__award__vendor__vendorSiteDetails__vendorSocioEconomicIndicators__isServiceRelatedDisabledVeteranOwnedBusiness"],
      [field |-> "small_business_status", kind |-> "boolean",
       key |-> "content__award__vendor__vendorSiteDetails__vendorSocioEconomicIndicators__isSmallBusiness"],
      [field |-> "women_owned_status", kind |-> "boolean",
       key |-> "content__award__vendor__vendorSiteDetails__vendorSocioEconomicIndicators__isWomenOwned"],
      [field |-> "competition_extent", kind |-> "string",
       key |-> "content__award__competition__extentCompeted__description"],
      [field |-> "set_aside_type", kind |-> "string",
       key |-> "content__award__competition__idvTypeOfSetAside__description"],
      [field |-> "number_of_offers", kind |-> "int",
       key |-> "content__award__competition__numberOfOffersReceived"],
      [field |-> "solicitation_procedure", kind |-> "string",
       key |-> "content__award__competition__solicitationProcedures__description"],
      [field |-> "start_date", kind |-> "string",
       key |-> "content__award__relevantContractDates__effectiveDate"],
      [field |-> "end_date", kind |-> "string",
       key |-> "content__award__relevantContractDates__currentCompletionDate"],
      [field |-> "performance_state", kind |-> "string",
       key |-> "content__award__placeOfPerformance__principalPlaceOfPerformance__stateCode"],
      [field |-> "performance_city", kind |-> "string",
       key |-> "content__award__placeOfPerformance__placeOfPerformanceZIPCode__city"],
      [field |-> "parent_contract_id", kind |-> "string",
       key |-> "content__award__awardID__referencedIDVID__PIID"],
      [field |-> "parent_contract_type", kind |-> "string",
       key |-> "content__award__contractData__referencedIDVType__description"]
    >>
PathKeys == {FieldTable[i].key : i \in DOMAIN FieldTable}
KeyPIID == "content__award__awardID__awardContractID__PIID"
KeySignedDate == "content__award__relevantContractDates__signedDate"

\* rawRecord[key]
Lookup(rawRecord, key) == IF key \in DOMAIN rawRecord THEN rawRecord[key] ELSE Undefined
\* value || ''
OrEmpty(value) == IF Falsy(value) THEN Str(<<>>) ELSE value
\* `${value}` of a string, a whole number or a boolean
TemplateText(value) ==
    IF value.type = "string" THEN value.chars
    ELSE IF value.type = "number" THEN DecimalText(value.whole)
    ELSE <<"t", "r", "u", "e">>

\* mapRecord(rawRecord, sourceMetadata): the record, as the function from its
\* field names to their values
mapRecord(rawRecord, sourceMetadata) ==
    LET Coerced(row) ==
            LET value == Lookup(rawRecord, row.key) IN
            CASE row.kind = "string" -> OrEmpty(value)
              [] row.kind = "float" -> parseFloatSafe(value)
              [] row.kind = "int" -> parseIntSafe(value)
              [] row.kind = "boolean" -> convertBooleanToString(value)
        RowOf(name) == FieldTable[CHOOSE i \in DOMAIN FieldTable : FieldTable[i].field = name]
    IN [name \in {FieldTable[i].field : i \in DOMAIN FieldTable}
                    \cup {"contract_hash", "source_metadata"} |->
          IF name = "contract_hash"
          THEN generateContractHash(TemplateText(OrEmpty(Lookup(rawRecord, KeyPIID))),
                                    TemplateText(OrEmpty(Lookup(rawRecord, KeySignedDate))))
          ELSE IF name = "source_metadata" THEN sourceMetadata
          ELSE Coerced(RowOf(name))]

\* ---------------------------------------------------- mapRecord on its own
\* the values tried: strings of up to MaxChars characters among digits, ".",
\* a letter, a blank and "-", the numbers 0 and 5, true and false
MapChars == {"0", "1", ".", "x", " ", "-"}
RawValuesTried ==
    {Str(x) : x \in UNION {[1..k -> MapChars] : k \in 0..MaxChars}}
        \cup {Zero, Num(FALSE, 5, <<>>), Bool(TRUE), Bool(FALSE)}
\* the sets of path-keys tried as the keys present: none, one, all
KeySetsTried == {{}, PathKeys} \cup {{k} : k \in PathKeys}

\* a flattened entry about to be mapped: every key present has value v
InitMap ==
    /\ GateStart(1)
    /\ mocked = 0
    /\ request = NoRequest
    /\ NewRequests({}, <<>>, <<>>, [threadCount |-> 1, retryAttempts |-> 1,
                                   retryDelay |-> DefaultRetryDelay])
    /\ \E keys \in KeySetsTried, v \in RawValuesTried :
          probe = [state |-> "pending", rawRecord |-> [k \in keys |-> v]]

\* mapRecord(rawRecord) returns
MapRecordReturns ==
    /\ probe.state = "pending"
    /\ probe' = [state |-> "settled", rawRecord |-> probe.rawRecord,
                 out |-> mapRecord(probe.rawRecord, Undefined)]
    /\ UNCHANGED <<gateVars, params, constructed, mocked, request, config, inst, may, semaphore, pagination, call, task, batch>>

SpecMap == InitMap /\ [][MapRecordReturns]_vars

\* -------------------------------------------------------- ContractProcessor
FieldAwardAmount == <<"a", "w", "a", "r", "d", "_", "a", "m", "o", "u", "n", "t">>
FieldTotalPotentialValue == <<"t", "o", "t", "a", "l", "_", "p", "o", "t", "e", "n", "t", "i", "a", "l", "_", "v", "a", "l", "u", "e">>
FieldNumberOfOffers == <<"n", "u", "m", "b", "e", "r", "_", "o", "f", "_", "o", "f", "f", "e", "r", "s">>
FieldSdvosbStatus == <<"s", "d", "v", "o", "s", "b", "_", "s", "t", "a", "t", "u", "s">>
FieldSmallBusinessStatus == <<"s", "m", "a", "l", "l", "_", "b", "u", "s", "i", "n", "e", "s", "s", "_", "s", "t", "a", "t", "u", "s">>
FieldWomenOwnedStatus == <<"w", "o", "m", "e", "n", "_", "o", "w", "n", "e", "d", "_", "s", "t", "a", "t", "u", "s">>
FieldName == <<"n", "a", "m", "e">>
Yes == Str(<<"Y", "e", "s">>)
No == Str(<<"N", "o">>)

\* the names the map callback of processRecordsForCSV assigns to, in the
\* order of its assignments
AssignedFields ==
    <<FieldAwardAmount, FieldTotalPotentialValue, FieldNumberOfOffers,
      FieldSdvosbStatus, FieldSmallBusinessStatus, FieldWomenOwnedStatus>>

\* the value the callback assigns to processedRecord[name], from the value
\* the record has there (parseFloat(x.toString()) of a number x is x)
AssignedValue(name, value) ==
    CASE name \in {FieldAwardAmount, FieldTotalPotentialValue} ->
            (IF Falsy(value) THEN Zero ELSE parseFloat(value))
      [] name = FieldNumberOfOffers ->
            (IF Falsy(value) THEN Zero ELSE parseInt(value))
      [] OTHER -> (IF value = Str(<<"t", "r", "u", "e">>) THEN Yes ELSE No)

\* the body of the map callback of processRecordsForCSV: the copy of the
\* record after the three numeric and the three status assignments.  Each
\* assignment reads only the field it writes: a field the record has keeps
\* its place, the others are added after the record's own in the order of
\* the assignments.
ProcessRecordForCSV(record) ==
    LET Has(name) == \E i \in 1..Len(record) : record[i][1] = name
        Assigned(name) == \E k \in 1..Len(AssignedFields) : AssignedFields[k] = name
        Missing(name) == ~Has(name)
        added == SelectSeq(AssignedFields, Missing)
    IN [i \in 1..Len(record) |->
            IF Assigned(record[i][1])
            THEN <<record[i][1], AssignedValue(record[i][1], record[i][2])>>
            ELSE record[i]]
        \o [k \in 1..Len(added) |-> <<added[k], AssignedValue(added[k], Undefined)>>]

\* processRecordsForCSV
processRecordsForCSV(records) ==
    [i \in 1..Len(records) |-> ProcessRecordForCSV(records[i])]

\* the text join() writes for a value: nothing for undefined, the decimal
\* text of a number
JoinText(value) ==
    CASE value.type = "string" -> value.chars
      [] value.type = "undefined" -> <<>>
      [] value.type = "NaN" -> <<"N", "a", "N">>
      [] value.type = "boolean" ->
            (IF value.value THEN <<"t", "r", "u", "e">> ELSE <<"f", "a", "l", "s", "e">>)
      [] value.type = "number" ->
            (IF value.neg THEN <<"-">> ELSE <<>>) \o DecimalText(value.whole)
                \o (IF value.frac = <<>> THEN <<>> ELSE <<".">> \o value.frac)

RECURSIVE DoubleQuotes(_)
\* value.replace(/"/g, '""')
DoubleQuotes(s) ==
    IF s = <<>> THEN <<>>
    ELSE (IF Head(s) = "\"" THEN <<"\"", "\"">> ELSE <<Head(s)>>) \o DoubleQuotes(Tail(s))

\* one cell of a row: a string with "," or '"' is quoted, any other value is
\* returned as it is and written by join()
CsvCell(value) ==
    IF value.type = "string"
          /\ \E k \in 1..Len(value.chars) : value.chars[k] \in {",", "\""}
    THEN <<"\"">> \o DoubleQuotes(value.chars) \o <<"\"">>
    ELSE JoinText(value)

\* convertToCSV(records)
convertToCSV(records) ==
    IF Len(records) = 0 THEN <<>>
    ELSE LET processedRecords == processRecordsForCSV(records)
             headers == [i \in 1..Len(processedRecords[1]) |-> processedRecords[1][i][1]]
             csvHeaders == JoinWith(headers, <<",">>)
             csvRows == [r \in 1..Len(processedRecords) |->
                            JoinWith([h \in 1..Len(headers) |->
                                        CsvCell(GetField(processedRecords[r], headers[h]))],
                                     <<",">>)]
         IN JoinWith(<<csvHeaders>> \o csvRows, <<"\n">>)

\* ------------------------------------------------- convertToCSV on its own
\* strings of up to n characters among a letter, a blank, "," and '"'
CsvStrings(n) == UNION {[1..k -> {"a", " ", ",", "\""}] : k \in 0..n}
\* 'Jane, Q.'
JaneQ == <<"J", "a", "n", "e", ",", " ", "Q", ".">>

\* the record lists tried: one record with a name, two records with a name,
\* one record with a name, an award amount and a status
CsvRecordsTried ==
    {<<<<<<FieldName, Str(x)>>>>>> : x \in CsvStrings(MaxChars) \cup {JaneQ}}
        \cup {<<<<<<FieldName, Str(x)>>>>, <<<<FieldName, Str(y)>>>>>> :
                x \in CsvStrings(1), y \in CsvStrings(1)}
        \cup {<<<<<<FieldSdvosbStatus, st>>, <<FieldAwardAmount, Num(FALSE, 5, <<>>)>>,
                 <<FieldName, Str(x)>>>>>> : st \in {Yes, No, Str(<<"t", "r", "u", "e">>)}, x \in CsvStrings(1)}

\* a record list about to be written as CSV
InitCSV ==
    /\ GateStart(1)
    /\ mocked = 0
    /\ request = NoRequest
    /\ NewRequests({}, <<>>, <<>>, [threadCount |-> 1, retryAttempts |-> 1,
                                   retryDelay |-> DefaultRetryDelay])
    /\ \E rs \in CsvRecordsTried : probe = [state |-> "pending", records |-> rs]

\* convertToCSV(records) returns
ConvertToCSVReturns ==
    /\ probe.state = "pending"
    /\ probe' = [state |-> "settled", records |-> probe.records,
                 out |-> convertToCSV(probe.records)]
    /\ UNCHANGED <<gateVars, params, constructed, mocked, request, config, inst, may, semaphore, pagination, call, task, batch>>

SpecCSV == InitCSV /\ [][ConvertToCSVReturns]_vars

\* ------------------------------------------ mapRecord, then convertToCSV
\* the classification flags of a record: field names of mapRecord and their
\* text as CSV column names
StatusFields == <<"sdvosb_status", "small_business_status", "women_owned_status">>
StatusColumns == <<FieldSdvosbStatus, FieldSmallBusinessStatus, FieldWomenOwnedStatus>>
\* the path-key mapRecord reads a field from
PathKeyOf(name) ==
    FieldTable[CHOOSE i \in DOMAIN FieldTable : FieldTable[i].field = name].key

\* the values tried under the path-key of a flag: "true", "false", true, false
FlagValuesTried ==
    {Str(<<"t", "r", "u", "e">>), Str(<<"f", "a", "l", "s", "e">>), Bool(TRUE), Bool(FALSE)}

\* the flattened entries tried: each of the three path-keys absent or with
\* one of the values tried
FlagEntriesTried ==
    UNION {[{PathKeyOf(StatusFields[k]) : k \in present} -> FlagValuesTried] :
            present \in SUBSET (1..3)}

\* a flattened entry about to be mapped and exported
InitExport ==
    /\ GateStart(1)
    /\ mocked = 0
    /\ request = NoRequest
    /\ NewRequests({}, <<>>, <<>>, [threadCount |-> 1, retryAttempts |-> 1,
                                   retryDelay |-> DefaultRetryDelay])
    /\ \E raw \in FlagEntriesTried : probe = [state |-> "pending", rawRecord |-> raw]

\* ContractProcessor.convertToCSV([FPDSFieldMapper.mapRecord(rawRecord)])
\* returns; of the record the three flags are kept, the cells of a column
\* being made from that column of the record alone
ExportReturns ==
    /\ probe.state = "pending"
    /\ LET mapped == mapRecord(probe.rawRecord, Undefined)
           record == [k \in 1..3 |-> <<StatusColumns[k], mapped[StatusFields[k]]>>]
       IN probe' = [state |-> "settled", rawRecord |-> probe.rawRecord,
                    record |-> record, out |-> convertToCSV(<<record>>)]
    /\ UNCHANGED <<gateVars, params, constructed, mocked, request, config, inst, may, semaphore, pagination, call, task, batch>>

SpecExport == InitExport /\ [][ExportReturns]_vars

\* ------------------------------------------------------- flattenXMLPaths
\* null, and an object that is not an array: the sequence of its
\* <<key, value>> pairs in the order of its keys
Null == [type |-> "null", chars |-> <<>>, items |-> <<>>]
Obj(pairs) == [type |-> "object", chars |-> <<>>, items |-> <<>>, pairs |-> pairs]
IsArray(value) == value.type = "object" /\ "pairs" \notin DOMAIN value

\* what `for (const key in obj)` with obj[key] goes through: the pairs of an
\* object, the indices and items of an array
OwnPairs(obj) ==
    IF IsArray(obj)
    THEN [i \in 1..Len(obj.items) |-> <<DecimalText(i - 1), Str(obj.items[i])>>]
    ELSE obj.pairs

\* a test that sends arrays into the recursion as well
IsObjectOrArray(value) == ~Falsy(value) /\ value.type = "object"

\* value && typeof value === 'object' && !Array.isArray(value)
IsNestedObject(value) == ~Falsy(value) /\ value.type = "object" /\ ~IsArray(value)

RECURSIVE FlattenFrom(_, _, _, _)
\* the for loop of flattenXMLPaths(obj, prefix, result) from pair i of
\* `pairs`, the pairs of obj: result after the loop
FlattenFrom(pairs, i, prefix, result) ==
    IF i > Len(pairs) THEN result
    ELSE LET key == pairs[i][1]
             value == pairs[i][2]
             newKey == IF prefix # <<>> THEN prefix \o <<"_", "_">> \o key ELSE key
         IN IF IsNestedObject(value)
            THEN FlattenFrom(pairs, i + 1, prefix,
                             FlattenFrom(OwnPairs(value), 1, newKey, result))
            ELSE FlattenFrom(pairs, i + 1, prefix, SetField(result, newKey, value))

\* flattenXMLPaths(obj), obj given by its pairs
flattenXMLPaths(pairs) == FlattenFrom(pairs, 1, <<>>, <<>>)

\* ---------------------------------------------- flattenXMLPaths on its own
\* scalars and arrays tried as values: "v", null, ["x"]
FlatValuesTried == {Str(<<"v">>), Null, List(<<<<"x">>>>)}
KeyA == <<"a">>
KeyB == <<"b">>
KeyAB == <<"a", "_", "_", "b">>

RECURSIVE ValuesTried(_)
\* the values tried, nested up to `depth` objects deep: a scalar or array, {},
\* an object of one key, an object of two keys with scalars or arrays
ValuesTried(depth) ==
    IF depth = 0 THEN FlatValuesTried
    ELSE FlatValuesTried \cup {Obj(<<>>)}
            \cup {Obj(<<<<k, v>>>>) : k \in {KeyA, KeyB}, v \in ValuesTried(depth - 1)}
            \cup {Obj(<<<<KeyA, v>>, <<KeyB, w>>>>) : v \in FlatValuesTried,
                                                      w \in FlatValuesTried}

\* the entries tried: one key, or two keys of which the second may be a__b
EntriesToFlatten ==
    {<<<<k, v>>>> : k \in {KeyA, KeyB}, v \in ValuesTried(MaxDepth)}
        \cup {<<<<KeyA, v>>, <<k, w>>>> : k \in {KeyB, KeyAB}, v \in ValuesTried(MaxDepth),
                                          w \in ValuesTried(1)}

\* an entry about to be flattened
InitFlatten ==
    /\ GateStart(1)
    /\ mocked = 0
    /\ request = NoRequest
    /\ NewRequests({}, <<>>, <<>>, [threadCount |-> 1, retryAttempts |-> 1,
                                   retryDelay |-> DefaultRetryDelay])
    /\ \E e \in EntriesToFlatten : probe = [state |-> "pending", entry |-> e]

\* flattenXMLPaths(entry) returns, and so does flattenXMLPaths of its result
FlattenReturns ==
    /\ probe.state = "pending"
    /\ probe' = [state |-> "settled", entry |-> probe.entry,
                 out |-> flattenXMLPaths(probe.entry),
                 again |-> flattenXMLPaths(flattenXMLPaths(probe.entry))]
    /\ UNCHANGED <<gateVars, params, constructed, mocked, request, config, inst, may, semaphore, pagination, call, task, batch>>

SpecFlatten == InitFlatten /\ [][FlattenReturns]_vars

\* ----------------------------------------------- threadCount of any value
\* DEFAULT_CONFIG.threadCount
DefaultThreadCount == 10

\* the texts tried for the --threads option of the CLI
ThreadsTried == {<<"0">>, <<"-", "1">>, <<"x">>, <<"1">>, <<"2">>}

\* the config objects tried: one without threadCount, one with an undefined
\* threadCount, and the CLI's { threadCount: parseInt(options.threads) }
ConfigsTried ==
    {<<>>, <<<<"threadCount", Undefined>>>>}
        \cup {<<<<"threadCount", parseInt(Str(x))>>>> : x \in ThreadsTried}

\* { ...DEFAULT_CONFIG, ...config }.threadCount: what config has under the
\* key when it has the key, an undefined value too, else the default
MergedThreadCount(given) ==
    IF \E i \in 1..Len(given) : given[i][1] = "threadCount"
    THEN GetField(given, "threadCount")
    ELSE Num(FALSE, DefaultThreadCount, <<>>)

\* new Semaphore(this.config.threadCount), threadCount a whole number or not
\* a number
SemaphoreOf(value) ==
    IF value.type = "number"
    THEN NewSemaphore(IF value.neg THEN 0 - value.whole ELSE value.whole)
    ELSE NotANumberSemaphore

\* one FPDSRequest object built with each of the config objects tried, on
\* which getData and one of getPage(1) and getDataStream are called
InitThreads ==
    /\ GateStart(1)
    /\ params = NoParams
    /\ constructed = Constructed
    /\ mocked = 0
    /\ request = NoRequest
    /\ \E given \in ConfigsTried :
          /\ config = [threadCount |-> MergedThreadCount(given),
                       retryAttempts |-> DefaultRetryAttempts,
                       retryDelay |-> DefaultRetryDelay]
          /\ semaphore = <<SemaphoreOf(MergedThreadCount(given))>>
    /\ inst = <<1, 1>>
    /\ may = <<{<<"getData", 1>>}, {<<"getPage", 1>>, <<"getDataStream", 1>>}>>
    /\ pagination = <<NoPagination>>
    /\ call = <<NoCall, NoCall>>
    /\ task = [t \in {1, 2} \X Pages |-> NoTask]
    /\ batch = NoBatch
    /\ probe = [state |-> "idle"]

SpecThreads == InitThreads /\ [][Next]_vars

\* ================================================================ claims
HoldersOf(i) == {t \in DOMAIN task : InstOf(t) = i /\ Holding(t)}

\* C4: on one FPDSRequest the page fetches between acquire and release are
\* never more than threadCount, and every one of them (also while it retries
\* or sleeps in backoff) is covered by a permit taken from the semaphore.
C4_FetchesWithinThreadCount ==
    \A i \in DOMAIN semaphore :
        /\ Cardinality(HoldersOf(i)) <= config.threadCount
        /\ Available(semaphore[i]) >= 0
        /\ Available(semaphore[i]) + Cardinality(HoldersOf(i)) = config.threadCount

\* C4 witness: the cap is reached, one holder is past a failed attempt
\* (sleeping or requesting again) and another page fetch waits for a permit.
C4_Witness ==
    \E t, u \in DOMAIN task :
        /\ Cardinality(HoldersOf(InstOf(t))) = config.threadCount
        /\ task[t].pc \in {"backoff", "fetching"}
        /\ task[t].attempt >= 2
        /\ task[u].pc = "waiting"
        /\ InstOf(u) = InstOf(t)

\* the HTTP requests in flight: fetch() called, body not yet read
InFlight == {t \in DOMAIN task : task[t].pc \in {"fetching", "reading"}}

\* C5: during one searchContracts call the HTTP requests in flight, over all
\* the contract queries of the batch, are never more than threadCount.
C5_BatchWithinThreadCount ==
    batch.state = "running" => Cardinality(InFlight) <= config.threadCount

\* what a task's retry loop did
Count(log, ev) == Cardinality({i \in 1..Len(log) : log[i].ev = ev})
Exhausted(t) ==
    /\ task[t].pc = "failed"
    /\ Len(task[t].log) > 0
    /\ task[t].log[Len(task[t].log)].ev = "throw"

\* C6: the retry loop calls makeRequest at most retryAttempts times; a body
\* returned ends the loop (nothing follows it, every call before it failed);
\* when the loop throws it has made exactly retryAttempts calls and throws
\* the error object of the last call, of the class makeRequest gave it.
C6_RetryBoundAndLastError ==
    \A t \in DOMAIN task :
        LET log == task[t].log IN
        /\ Count(log, "attempt") <= config.retryAttempts
        /\ \A i \in 1..Len(log) :
              log[i].ev = "return" =>
                  /\ i = Len(log)
                  /\ log[i - 1].ev = "attempt"
                  /\ Count(log, "sleep") = Count(log, "attempt") - 1
        /\ Exhausted(t) =>
              /\ Count(log, "attempt") = config.retryAttempts
              /\ task[t].error.call = config.retryAttempts
              /\ task[t].error.kind \in {"FPDSRequestError", "NetworkError"}

\* C6 witness: three calls were allowed, all three were made and failed, and
\* the loop threw the NetworkError of the third.
C6_Witness ==
    \E t \in DOMAIN task :
        /\ config.retryAttempts = 3
        /\ Exhausted(t)
        /\ Count(task[t].log, "attempt") = 3
        /\ task[t].error.kind = "NetworkError"
        /\ task[t].error.call = 3

\* number of makeRequest calls among the first i entries of a log
CallsBefore(log, i) == Cardinality({j \in 1..i : log[j].ev = "attempt"})

\* C7: every sleep directly follows a failed call k < retryAttempts and lasts
\* retryDelay * 2^(k-1); the next thing after it is call k+1; the final throw
\* directly follows the last call; with 3 attempts and 1000 ms the loop that
\* fails is call, sleep 1000, call, sleep 2000, call, throw.
C7_BackoffSchedule ==
    \A t \in DOMAIN task :
        LET log == task[t].log IN
        /\ \A i \in 1..Len(log) :
              /\ log[i].ev = "sleep" =>
                    LET k == CallsBefore(log, i) IN
                    /\ i > 1 /\ log[i - 1].ev = "attempt"
                    /\ k >= 1 /\ k < config.retryAttempts
                    /\ log[i].ms = config.retryDelay * (2 ^ (k - 1))
                    /\ i < Len(log) => log[i + 1].ev = "attempt"
              /\ log[i].ev = "throw" =>
                    /\ i = Len(log)
                    /\ i > 1 => log[i - 1].ev = "attempt"
        /\ (Exhausted(t) /\ config.retryAttempts = 3 /\ config.retryDelay = 1000) =>
              log = <<Attempt, Sleep(1000), Attempt, Sleep(2000), Attempt, Thrown>>

\* C7 witness: the failing loop of three attempts has run to its throw after
\* sleeping 1000 ms and then 2000 ms.
C7_Witness ==
    \E t \in DOMAIN task :
        /\ config.retryAttempts = 3
        /\ config.retryDelay = 1000
        /\ task[t].pc = "failed"
        /\ task[t].log = <<Attempt, Sleep(1000), Attempt, Sleep(2000), Attempt, Thrown>>

\* task t's makeRequest call ends by throwing in this step
MakeRequestThrows(t) ==
    /\ task[t].pc \in {"fetching", "reading"}
    /\ task'[t].pc \in {"backoff", "failed"}
    /\ task'[t].error.kind # "ParseError"

\* C8: whatever makeRequest throws, an FPDSRequestError of any status or a
\* NetworkError, the loop does the same: before the last attempt it keeps the
\* error, sleeps the backoff of that attempt and will call again; on the last
\* attempt it throws.
C8_RetryBlindToErrorKind ==
    [][\A t \in DOMAIN task : MakeRequestThrows(t) =>
          IF task[t].attempt < config.retryAttempts
          THEN /\ task'[t].pc = "backoff"
               /\ task'[t].attempt = task[t].attempt
               /\ task'[t].lastError.kind \in {"FPDSRequestError", "NetworkError"}
               /\ task'[t].log = Append(task[t].log,
                      Sleep(config.retryDelay * (2 ^ (task[t].attempt - 1))))
          ELSE /\ task'[t].pc = "failed"
               /\ task'[t].error.kind \in {"FPDSRequestError", "NetworkError"}
               /\ task'[t].log = Append(task[t].log, Thrown)]_vars

\* C8 witness: a 404 answer to the second call is being retried like the
\* failure before it: the loop sleeps the second backoff.
C8_Witness ==
    \E t \in DOMAIN task :
        /\ task[t].pc = "backoff"
        /\ task[t].attempt = 2
        /\ task[t].lastError.kind = "FPDSRequestError"
        /\ task[t].lastError.status = 404
        /\ task[t].log = <<Attempt, Sleep(1000), Attempt, Sleep(2000)>>

\* task t's page fetch gets a ParseError in this step
ParseErrorRaised(t) ==
    /\ task[t].pc = "reading"
    /\ \/ task'[t].error.kind = "ParseError"
       \/ task'[t].lastError.kind = "ParseError"

\* C9: a ParseError is not retried: the step that raises it ends the page
\* fetch with that ParseError, adds no sleep and no call to what the loop
\* did, and gives the permit back; a failed page fetch makes no request
\* afterwards, and the retry loop never holds a ParseError.
C9_ParseErrorNotRetried ==
    /\ [](\A t \in DOMAIN task : task[t].lastError.kind # "ParseError")
    /\ [][\A t \in DOMAIN task :
            /\ ParseErrorRaised(t) =>
                  /\ task'[t].pc = "failed"
                  /\ task'[t].error.kind = "ParseError"
                  /\ task'[t].log = Append(task[t].log, Returned)
                  /\ t \notin HoldersOf(InstOf(t))'
                  /\ Available(semaphore[InstOf(t)])' + Cardinality(HoldersOf(InstOf(t)))'
                        = Available(semaphore[InstOf(t)]) + Cardinality(HoldersOf(InstOf(t)))
            /\ task[t].pc = "failed" => task'[t].pc \in {"failed", "none"}]_vars

\* C9 witness: a blank body answered the first of three allowed calls; the
\* page fetch has failed with the ParseError after that one call and every
\* permit is back.
C9_Witness ==
    \E t \in DOMAIN task :
        /\ config.retryAttempts = 3
        /\ task[t].pc = "failed"
        /\ task[t].error.kind = "ParseError"
        /\ task[t].error.msg = "XML data is empty or null"
        /\ task[t].log = <<Attempt, Returned>>
        /\ Available(semaphore[InstOf(t)]) = config.threadCount

\* C10: makeRequest ends in one of three ways: it returns the body when the
\* status is 2xx and the body arrives; it throws an FPDSRequestError with the
\* response's status when the status is not 2xx; it throws a NetworkError on
\* a timeout or a connection failure.  Nothing else is thrown.
C10_MakeRequestOutcomes ==
    probe.state = "settled" =>
        LET f == probe.fetch
            x == probe.text
            out == probe.out
            is2xx == f.type = "response" /\ f.status \in 200..299
        IN  /\ out.next \in {"return", "throw"}
            /\ (is2xx /\ x.type = "text") =>
                  out.next = "return" /\ out.body = x.body /\ out.error = NoError
            /\ (f.type = "response" /\ ~is2xx) =>
                  /\ out.next = "throw"
                  /\ out.error.kind = "FPDSRequestError"
                  /\ out.error.status = f.status
            /\ (f.type \in {"abort", "reject"} \/ (is2xx /\ x.type = "reject")) =>
                  out.next = "throw" /\ out.error.kind = "NetworkError"
            /\ out.next = "throw" =>
                  out.error.kind \in {"FPDSRequestError", "NetworkError"}

\* C10 witness: a 404 answer has made makeRequest throw the FPDSRequestError
\* that carries 404.
C10_Witness ==
    /\ probe.state = "settled"
    /\ probe.fetch = [type |-> "response", status |-> 404]
    /\ probe.out.next = "throw"
    /\ probe.out.error.kind = "FPDSRequestError"
    /\ probe.out.error.status = 404

\* ------------------------------------------------------------- validation
\* entry e of params holds a string that breaks the format of its field
IsBad(e) == e[2].type = "string" /\ e[2].chars \in BadFor(e[1])
\* the position of the first such entry, 0 when there is none
FirstBad ==
    LET bad == {i \in 1..Len(params) : IsBad(params[i])} IN
    IF bad = {} THEN 0 ELSE CHOOSE i \in bad : \A j \in bad : i <= j

C12_OnlyLiteralDateRangeAccepted ==
    \A i \in 1..Len(params) :
        ( /\ params[i][1] \in DateKeys
          /\ params[i][2] # Undefined
          /\ ~( /\ params[i][2].type = "string"
                /\ params[i][2].chars \in GoodDates \cup LooseDates ) )
        => /\ constructed.state # "returned"
           /\ DOMAIN task = {}

\* ------------------------------------------------------------- pagination
\* the records of call c's result that come from page p
OfPage(records, p) ==
    LET OnPage(r) == r[2] = p IN SelectSeq(records, OnPage)

\* C13: the list getData returns is page 1's records, then page 2's, ..., then
\* page T's, whatever the order in which the page fetches completed: the
\* records are in ascending page order, in their order within each page, and
\* the part of each later page is that page's records.
C13_OutputInPageOrder ==
    \A c \in DOMAIN call :
        (call[c].entry = "getData" /\ call[c].state = "resolved") =>
            LET out == call[c].records IN
            /\ \A i, j \in 1..Len(out) :
                  i < j => \/ out[i][2] < out[j][2]
                           \/ out[i][2] = out[j][2] /\ out[i][3] < out[j][3]
            /\ OfPage(out, 1) = call[c].first
            /\ \A p \in 2..call[c].totalPages :
                  OfPage(out, p) = task[<<c, p>>].records

\* getData has returned a three-page result of which page 3 completed
\* before page 2, both with records
C13_Witness ==
    \E c \in DOMAIN call :
        /\ call[c].entry = "getData" /\ call[c].state = "resolved"
        /\ call[c].totalPages >= 3
        /\ task[<<c, 3>>].rank < task[<<c, 2>>].rank
        /\ task[<<c, 2>>].records # <<>>
        /\ task[<<c, 3>>].records # <<>>
        /\ call[c].first # <<>>

\* the fetchPage invocations of public call c
TasksOf(c) == {t \in DOMAIN task : t[1] = c}
FetchErrors == {"FPDSRequestError", "NetworkError", "ParseError"}

\* C14: when a page fetch of getData fails (retries exhausted, or a
\* ParseError), getData rejects with exactly the error that page fetch threw
\* and delivers no records; it never resolves when one of its page fetches
\* has failed, so no partial list is returned.
C14_FailurePropagatesWhole ==
    /\ [](\A c \in DOMAIN call :
            call[c].entry = "getData" =>
                /\ call[c].state = "rejected" =>
                      /\ call[c].records = <<>>
                      /\ call[c].error.kind \in FetchErrors
                /\ call[c].state = "resolved" =>
                      \A t \in TasksOf(c) : task[t].pc # "failed")
    /\ [][\A c \in DOMAIN call :
            ( /\ call[c].entry = "getData"
              /\ call[c].state # "rejected"
              /\ call'[c].state = "rejected" )
            => \E t \in TasksOf(c) :
                  /\ task[t].pc = "failed"
                  /\ call'[c].error = task[t].error
                  /\ call'[c].records = <<>>]_vars

\* getData has rejected with the error of a later page although another
\* later page had returned records
C14_Witness ==
    \E c \in DOMAIN call :
        /\ call[c].entry = "getData" /\ call[c].state = "rejected"
        /\ \E u \in LaterPages(c), v \in LaterPages(c) :
              /\ task[u].pc = "done" /\ task[u].records # <<>>
              /\ task[v].pc = "failed" /\ task[v].error = call[c].error
        /\ call[c].records = <<>>

\* a fetchPage invocation that has started and not settled: waiting for a
\* permit, or holding one (requesting, reading, sleeping in backoff)
Pending(t) == task[t].pc = "waiting" \/ Holding(t)

C17_OneTaskPerLaterPage ==
    \A c \in DOMAIN call :
        (call[c].entry = "getData" /\ call[c].totalPages > 1) =>
            LET T == call[c].totalPages
                out == call[c].records IN
            /\ call[c].state \in {"pages", "resolved", "rejected"}
            /\ \A p \in Pages :
                  /\ p \in 2..T => task[<<c, p>>].pc # "none"
                  /\ p > T => task[<<c, p>>].pc = "none"
            /\ Available(semaphore[inst[c]]) >= 0
            /\ Available(semaphore[inst[c]]) + Cardinality(HoldersOf(inst[c]))
                  = config.threadCount
            /\ call[c].state = "resolved" =>
                  /\ \A p \in 2..T : task[<<c, p>>].pc = "done"
                  /\ \A i \in 1..Len(call[c].first) :
                        \E k \in 1..Len(out) : out[k] = call[c].first[i]
                  /\ \A p \in 2..T : \A i \in 1..Len(task[<<c, p>>].records) :
                        \E k \in 1..Len(out) : out[k] = task[<<c, p>>].records[i]
                  /\ \A k \in 1..Len(out) :
                        /\ out[k][2] \in 1..T
                        /\ \A j \in 1..Len(out) : j # k => out[j] # out[k]
                        /\ \/ out[k][2] = 1 /\ out[k][3] <= Len(call[c].first)
                           \/ /\ out[k][2] > 1
                              /\ out[k][3] <= Len(task[<<c, out[k][2]>>].records)

\* getData has returned the records of three pages, each with records,
\* fetched through a semaphore of one permit
C17_Witness ==
    \E c \in DOMAIN call :
        /\ call[c].entry = "getData" /\ call[c].state = "resolved"
        /\ call[c].totalPages = 3
        /\ config.threadCount = 1
        /\ Len(call[c].first) > 0
        /\ \A p \in 2..3 : Len(task[<<c, p>>].records) > 0
        /\ Len(call[c].records) = Len(call[c].first)
              + Len(task[<<c, 2>>].records) + Len(task[<<c, 3>>].records)

\* C18: the PaginationState getFirstPage stores is derived from page 1's
\* record count only: totalPages = 1 and totalRecords = recordsPerPage = the
\* number of records of page 1; so getData and getDataStream never start a
\* fetch of a page beyond page 1, and getData never enters its fan-out branch.
C18_PaginationFromFirstPageOnly ==
    /\ \A i \in DOMAIN pagination :
          pagination[i] # NoPagination =>
              /\ pagination[i].currentPage = 1
              /\ pagination[i].totalPages = 1
              /\ pagination[i].totalRecords = pagination[i].recordsPerPage
    /\ \A c \in DOMAIN call :
          call[c].entry \in {"getData", "getDataStream"} =>
              /\ call[c].state \notin {"pages", "streamPage"}
              /\ \A p \in Pages \ {1} : task[<<c, p>>].pc = "none"
              /\ (call[c].entry = "getData" /\ call[c].state = "resolved") =>
                    /\ call[c].totalPages = 1
                    /\ pagination[inst[c]].totalRecords = Len(call[c].records)
              /\ (call[c].entry = "getDataStream"
                    /\ call[c].state \in {"suspended", "resolved"}) =>
                    /\ call[c].totalPages = 1
                    /\ Len(call[c].yielded) = 1
                    /\ pagination[inst[c]].totalRecords = Len(call[c].yielded[1])

\* getData has returned a full first page and the stored PaginationState
\* says there is one page
C18_Witness ==
    \E c \in DOMAIN call :
        /\ call[c].entry = "getData" /\ call[c].state = "resolved"
        /\ Len(call[c].records) = MaxRecords
        /\ pagination[inst[c]].totalPages = 1
        /\ pagination[inst[c]].totalRecords = MaxRecords

\* C19: getDataStream yields nothing before the fetch of page 1 has
\* completed and established the pagination; batch k of what it has yielded
\* is the records of page k, each batch is yielded when the fetch of its page
\* has returned and is exactly that fetch's records; the pages are fetched
\* one after the other, and a stream that has ended has yielded one batch
\* per page 1..totalPages.
C19_StreamYieldsPagesInOrder ==
    /\ [](\A c \in DOMAIN call :
            call[c].entry = "getDataStream" =>
                LET out == call[c].yielded IN
                /\ call[c].state = "firstPage" => out = <<>>
                /\ out # <<>> => call[c].totalPages >= 1
                /\ Len(out) <= call[c].totalPages
                /\ \A k \in 1..Len(out) : \A i \in 1..Len(out[k]) :
                      out[k][i] = <<c, k, i>>
                /\ call[c].state = "suspended" => Len(out) = call[c].page
                /\ call[c].state = "streamPage" =>
                      /\ Len(out) = call[c].page - 1
                      /\ \A p \in Pages : p # call[c].page => task[<<c, p>>].pc = "none"
                /\ call[c].state = "resolved" => Len(out) = call[c].totalPages)
    /\ [][\A c \in DOMAIN call :
            (call[c].entry = "getDataStream" /\ call'[c].yielded # call[c].yielded) =>
                /\ task[<<c, call[c].page>>].pc = "done"
                /\ call'[c].yielded =
                      Append(call[c].yielded, task[<<c, call[c].page>>].records)]_vars

\* a stream over three pages has ended after yielding three batches, each
\* with records
C19_Witness ==
    \E c \in DOMAIN call :
        /\ call[c].entry = "getDataStream" /\ call[c].state = "resolved"
        /\ call[c].totalPages = 3
        /\ Len(call[c].yielded) = 3
        /\ \A k \in 1..3 : call[c].yielded[k] # <<>>

\* -------------------------------------------------------- searchContracts
\* the records of a batch result that come from query c
OfQuery(records, c) ==
    LET FromQuery(r) == r[1] = c IN SelectSeq(records, FromQuery)

\* C20: in searchContracts a query whose fetch failed contributes an empty
\* list: the call resolves with the records of the queries that succeeded, in
\* the order of the contract numbers, and with nothing else; and the step in
\* which a query fails changes nothing of its sibling queries.
C20_FailedQueryIsolated ==
    /\ [](batch.state = "resolved" =>
            /\ \A c \in DOMAIN call :
                  /\ call[c].state \in {"resolved", "rejected"}
                  /\ call[c].state = "resolved" =>
                        OfQuery(batch.records, c) = call[c].records
                  /\ call[c].state = "rejected" => OfQuery(batch.records, c) = <<>>
            /\ \A k \in 1..Len(batch.records) :
                  /\ batch.records[k][1] \in DOMAIN call
                  /\ \A j \in 1..Len(batch.records) :
                        j < k => batch.records[j][1] <= batch.records[k][1])
    /\ [][\A c \in DOMAIN call :
            (call[c].state # "rejected" /\ call'[c].state = "rejected") =>
                \A d \in DOMAIN call \ {c} :
                    /\ call'[d] = call[d]
                    /\ semaphore'[inst[d]] = semaphore[inst[d]]
                    /\ \A t \in TasksOf(d) : task'[t] = task[t]]_vars

\* searchContracts over two contract numbers has resolved with the records
\* of the second query, the first having failed on all its retries with a
\* NetworkError
C20_Witness ==
    /\ batch.state = "resolved"
    /\ call[1].state = "rejected"
    /\ call[1].error.kind = "NetworkError"
    /\ call[1].error.call = config.retryAttempts
    /\ call[2].state = "resolved"
    /\ call[2].records # <<>>
    /\ batch.records = call[2].records

\* C21: searchContracts as a whole never raises: whatever the contract
\* numbers and the date range of the request are, and whatever failure a
\* query meets, the promise it returned is never rejected.
C21_BatchNeverRejects == batch.state # "rejected"

\* C22: when the request has metadata, every record searchContracts returns
\* carries a source_metadata made of the keys and values of that metadata and
\* of source_contract_number, which is the contract number of the query that
\* fetched the record; when the request has no metadata, no record searchContracts returns
\* carries a source_metadata.
C22_RecordsStampedWithOwnQuery ==
    batch.state = "resolved" =>
        \A k \in 1..Len(batch.records) :
            LET r == batch.records[k] IN
            IF request.metadata.given
            THEN /\ Len(r) = 4
                 /\ DOMAIN r[4] = DOMAIN request.metadata.value \cup {"source_contract_number"}
                 /\ r[4]["source_contract_number"] = request.contracts[r[1]]
                 /\ \A key \in DOMAIN request.metadata.value \ {"source_contract_number"} :
                        r[4][key] = request.metadata.value[key]
            ELSE Len(r) = 3

\* searchContracts with metadata over two different contract numbers has
\* returned a record of each query
C22_Witness ==
    /\ batch.state = "resolved"
    /\ request.metadata.given
    /\ "batch" \in DOMAIN request.metadata.value
    /\ request.contracts[1] # request.contracts[2]
    /\ \E j, k \in 1..Len(batch.records) :
          batch.records[j][1] = 1 /\ batch.records[k][1] = 2

\* ----------------------------------------------------------- URL round trip
\* the position of the first ch in s, 0 when s has none
FirstIndex(s, ch) ==
    IF \E k \in 1..Len(s) : s[k] = ch
    THEN CHOOSE k \in 1..Len(s) : s[k] = ch /\ \A j \in 1..(k - 1) : s[j] # ch
    ELSE 0

\* the query string of a URL: what follows its first "?"
QueryOf(url) == SubSeq(url, FirstIndex(url, "?") + 1, Len(url))

RECURSIVE SplitOn(_, _)
\* s.split(ch)
SplitOn(s, ch) ==
    LET i == FirstIndex(s, ch) IN
    IF i = 0 THEN <<s>>
    ELSE <<SubSeq(s, 1, i - 1)>> \o SplitOn(SubSeq(s, i + 1, Len(s)), ch)

RECURSIVE FormDecode(_)
\* the decoding of application/x-www-form-urlencoded text: "+" is a blank,
\* %XX the character of that byte
FormDecode(s) ==
    IF s = <<>> THEN <<>>
    ELSE IF Head(s) = "+" THEN <<" ">> \o FormDecode(Tail(s))
    ELSE IF Head(s) = "%" /\ Len(s) >= 3
                /\ \E c \in Reserved : PercentCode(c) = SubSeq(s, 1, 3)
    THEN <<CHOOSE c \in Reserved : PercentCode(c) = SubSeq(s, 1, 3)>>
            \o FormDecode(SubSeq(s, 4, Len(s)))
    ELSE <<Head(s)>> \o FormDecode(Tail(s))

\* the name-value pairs of a query string, in order
DecodedPairs(qs) ==
    LET NonEmpty(piece) == piece # <<>>
        pieces == SelectSeq(SplitOn(qs, "&"), NonEmpty)
        NameOf(piece) == LET i == FirstIndex(piece, "=") IN
                         IF i = 0 THEN piece ELSE SubSeq(piece, 1, i - 1)
        ValueOf(piece) == LET i == FirstIndex(piece, "=") IN
                          IF i = 0 THEN <<>> ELSE SubSeq(piece, i + 1, Len(piece))
    IN [i \in 1..Len(pieces) |->
            <<FormDecode(NameOf(pieces[i])), FormDecode(ValueOf(pieces[i]))>>]

\* the parameter set a query string decodes to, as Object.entries lists it:
\* a name that occurs once has its value, a name that occurs several times
\* has the list of its values
DecodedParams(qs) ==
    LET pairs == DecodedPairs(qs)
        First(i) == \A j \in 1..(i - 1) : pairs[j][1] # pairs[i][1]
        names == SelectSeq([i \in 1..Len(pairs) |-> i], First)
        ValuesOf(name) ==
            LET Named(pair) == pair[1] = name
                named == SelectSeq(pairs, Named)
            IN [i \in 1..Len(named) |-> named[i][2]]
    IN [n \in 1..Len(names) |->
            LET name == pairs[names[n]][1] IN
            <<name, IF Len(ValuesOf(name)) = 1 THEN Str(ValuesOf(name)[1])
                    ELSE List(ValuesOf(name))>>]

\* a list of one string and that string are taken as the same value
SingleAsString(entries) ==
    [i \in 1..Len(entries) |->
        <<entries[i][1],
          IF entries[i][2].type = "object" /\ Len(entries[i][2].items) = 1
          THEN Str(entries[i][2].items[1]) ELSE entries[i][2]>>]

\* C23: the query string of the URL buildSearchUrl builds decodes to the
\* parameters it was built from: the same names with the same values, a
\* list-valued parameter being again the list of its strings.
C23_UrlRoundTrip ==
    probe.state = "settled" =>
        DecodedParams(QueryOf(probe.out)) = SingleAsString(probe.params)

\* C24: generateContractHash gives equal hashes for equal argument pairs
\* and, the digest being collision-free, different hashes for different
\* argument pairs, also when the arguments contain ":".
C24_HashSeparatesPairs ==
    probe.state = "settled" =>
        (probe.out[1] = probe.out[2] <=> probe.first = probe.second)

\* ------------------------------------------------------------- mapRecord
\* a value is numeric: a number, or a string that is, white space around it
\* apart, one decimal numeral
IsNumeric(value) ==
    \/ value.type = "number"
    \/ /\ value.type = "string"
       /\ LeadingNumeral(value.chars).to # 0
       /\ SkipSpace(value.chars, LeadingNumeral(value.chars).to) = Len(value.chars) + 1

\* C25: mapRecord returns a record for every flattened entry; in it a string
\* field whose path-key is absent is the empty string, and a numeric field
\* whose path-key is absent or whose value is not numeric is 0.
C25_MapRecordDefaults ==
    probe.state = "settled" =>
        \A i \in DOMAIN FieldTable :
            LET row == FieldTable[i]
                absent == row.key \notin DOMAIN probe.rawRecord
            IN /\ row.field \in DOMAIN probe.out
               /\ (row.kind = "string" /\ absent) => probe.out[row.field] = Str(<<>>)
               /\ (row.kind \in {"float", "int"}
                     /\ (absent \/ ~IsNumeric(probe.rawRecord[row.key])))
                    => probe.out[row.field] = Zero

\* ----------------------------------------------------------- convertToCSV
\* the rows the CSV of a record list is to have: the field names of the
\* records, then for each record its values, a string with "," or '"' in
\* quotes with its quotes doubled, every other value as it is
ExpectedRows(records) ==
    LET names == [i \in 1..Len(records[1]) |-> records[1][i][1]]
        Written(value) ==
            IF value.type = "string"
                  /\ \E k \in 1..Len(value.chars) : value.chars[k] \in {",", "\""}
            THEN <<"\"">> \o DoubleQuotes(value.chars) \o <<"\"">>
            ELSE JoinText(value)
    IN <<JoinWith(names, <<",">>)>>
          \o [r \in 1..Len(records) |->
                JoinWith([h \in 1..Len(names) |-> Written(GetField(records[r], names[h]))],
                         <<",">>)]

\* C26: the CSV of a non-empty record list is a header row of the record's
\* own field names followed by one row per record, in input order, in which a
\* string value with "," or '"' is quoted with its quotes doubled and every
\* other value is written unchanged.
C26_CSVRowsOfRecords ==
    probe.state = "settled" =>
        probe.out = JoinWith(ExpectedRows(probe.records), <<"\n">>)

\* -------------------------------------------------------- flattenXMLPaths
\* an entry without nested objects: every value is a scalar or an array
IsFlat(entry) ==
    \A i \in 1..Len(entry) :
        entry[i][2].type # "object" \/ "pairs" \notin DOMAIN entry[i][2]

\* C27: flattenXMLPaths returns an entry that has no nested object as it is,
\* with the same keys in the same order and the same values, and flattening
\* the result of flattenXMLPaths again changes nothing.
C27_FlattenIdempotent ==
    probe.state = "settled" =>
        /\ IsFlat(probe.entry) => probe.out = probe.entry
        /\ IsFlat(probe.out)
        /\ probe.again = probe.out

\* an entry of a scalar and an array has been flattened and flattened again
C27_Witness ==
    /\ probe.state = "settled"
    /\ probe.entry = <<<<KeyA, Str(<<"v">>)>>, <<KeyB, List(<<<<"x">>>>)>>>>
    /\ probe.out = probe.entry
    /\ probe.again = probe.entry

\* ------------------------------------------------------- PaginationState
\* C28: the PaginationState of a request object changes only in the step in
\* which a first-page fetch of getData or getDataStream is completed; a step
\* in which the fetch of a later page goes on or ends, or in which getPage,
\* the page tasks of getData or a later step of getDataStream hand over
\* their records, leaves it as it is, whatever the number of those records.
C28_PaginationOnlyFromFirstPage ==
    /\ [][\A i \in DOMAIN pagination :
            pagination'[i] # pagination[i] =>
                \E c \in DOMAIN call :
                    /\ inst[c] = i
                    /\ call[c].state = "firstPage"
                    /\ call'[c].state # "firstPage"
                    /\ task[<<c, 1>>].pc = "done"
                    /\ pagination'[i].totalRecords = Len(task[<<c, 1>>].records)]_vars
    /\ [][((\E t \in DOMAIN task :
                t[2] >= 2 /\ task[t].pc # "none" /\ task'[t] # task[t])
            \/ (\E c \in DOMAIN call :
                call[c].state \in {"page", "streamPage", "pages"}
                    /\ call'[c] # call[c]))
            => pagination' = pagination]_vars

\* getData over two pages and getPage(2) have both returned records of the
\* second page, whose number is not the number of records of the first page
\* that the PaginationState holds
C28_Witness ==
    /\ pagination[1].currentPage = 1
    /\ call[1].entry = "getData"
    /\ call[1].state = "resolved"
    /\ Len(call[1].records) # pagination[1].totalRecords
    /\ call[2].state = "resolved"
    /\ Len(call[2].records) # pagination[1].totalRecords

\* C29: every HTTP call is under its timeout until its complete response, the
\* status and the body, has arrived: while a makeRequest call waits for
\* the response of fetch or for the text of the body, its timeout timer is
\* set, so that the expiry of the timeout can abort it.
C29_TimeoutCoversWholeResponse ==
    \A t \in DOMAIN task :
        task[t].pc \in {"fetching", "reading"} => task[t].timer

\* C30: the search parameters of a request object do not change while it
\* lives: its searchUrl is the query of the parameter values that passed
\* validation in the constructor, and the URL of every page request it issues
\* is built from those same values and the page number, whatever the caller
\* did to the parameter object afterwards.
C30_RequestsFromValidatedParams ==
    constructed.state = "returned" =>
        /\ constructed.searchUrl = QueryPairs(constructed.validated)
        /\ \A t \in DOMAIN task :
                task[t].url # <<>> =>
                    task[t].url =
                        QueryPairs(SetField(constructed.validated, NamePage,
                                            Str(DecimalText(t[2]))))

\* C31: with a Semaphore of capacity N >= 1 in balanced use, in every state
\* 0 <= permits <= N, permits plus the number of holders is N, and the
\* queue of waiters is non-empty only when permits = 0.
C31_SemaphoreState ==
    /\ capacity >= 1
    /\ Available(gate) >= 0
    /\ Available(gate) <= capacity
    /\ Available(gate) + Cardinality(Holders) = capacity
    /\ (Waiting(gate) > 0 => Available(gate) = 0)

\* C31 witness: every permit of a Semaphore of more than one permit is held
\* after a release() handed one over, and one caller is left waiting
C31_Witness ==
    /\ capacity >= 2
    /\ Cardinality(Holders) = capacity
    /\ woke # 0
    /\ Waiting(gate) = 1
    /\ Available(gate) = 0

\* acquire() called by c
AcquireStep(c) == caller[c] = "idle" /\ caller'[c] # "idle"

\* C32: a release() with waiters gives its permit to the head waiter and
\* leaves none available; an acquire() called while every permit is held or
\* handed over, or while waiters are queued, takes no permit and is queued
\* behind the waiters already there.
C32_NoBarging ==
    [][/\ \A c \in Callers :
            (ReleaseStep(c) /\ Waiting(gate) > 0) =>
                /\ Available(gate') = 0
                /\ caller'[Head(gate.queue)] = "holding"
       /\ \A c \in Callers :
            (AcquireStep(c)
                /\ (Waiting(gate) > 0 \/ Cardinality(Holders) = capacity)) =>
                /\ caller'[c] = "waiting"
                /\ gate'.queue = Append(gate.queue, c)
                /\ Available(gate') = Available(gate)
                /\ \A x \in Callers \ {c} : caller'[x] = caller[x]]_vars

\* C32 witness: the single permit was handed to a waiter by a release(), and
\* every other caller, the one that released and called acquire() again
\* included, is queued
C32_Witness ==
    /\ capacity = 1
    /\ woke # 0
    /\ caller[woke] = "holding"
    /\ Waiting(gate) = MaxCallers - 1

\* the page fetches of FPDSRequest object i, and those that still hold a
\* permit or wait for one
FetchesOf(i) == {t \in DOMAIN task : InstOf(t) = i}
Unsettled(i) == {t \in FetchesOf(i) : Holding(t) \/ task[t].pc = "waiting"}
\* the page fetches of object i that a step takes out of their try block
Leaving(i) == {t \in FetchesOf(i) : Holding(t) /\ Finished(t)'}

\* C33: a page fetch releases exactly once, when it ends, the permit it
\* acquired: every step that ends a page fetch with its records, or with a
\* RequestError, a NetworkError or a ParseError, is one release() on the
\* semaphore of its object; no other step is a release(); and when no page
\* fetch of an object holds a permit or waits for one, the object's
\* semaphore has available = threadCount and waiting = 0.
C33_OneReleasePerFetch ==
    /\ [](\A i \in DOMAIN semaphore :
            Unsettled(i) = {} =>
                /\ Available(semaphore[i]) = config.threadCount
                /\ Waiting(semaphore[i]) = 0)
    /\ [][\A i \in DOMAIN semaphore :
            /\ Cardinality(Leaving(i)) <= 1
            /\ Leaving(i) # {} => semaphore'[i] = Release(semaphore[i]).sem
            /\ Leaving(i) = {} =>
                    /\ Available(semaphore'[i]) <= Available(semaphore[i])
                    /\ Waiting(semaphore'[i]) >= Waiting(semaphore[i])]_vars

\* C33 witness: on an object with one permit whose first page was fetched
\* with a record, one later page fetch, which had to wait for the permit,
\* has ended with a ParseError and another with the error of its last HTTP
\* call, and the permit is back
C33_Witness ==
    \E i \in DOMAIN semaphore :
        /\ config.threadCount = 1
        /\ Unsettled(i) = {}
        /\ Available(semaphore[i]) = 1
        /\ \E c \in DOMAIN call : inst[c] = i /\ call[c].first # <<>>
        /\ \E u, v \in FetchesOf(i) :
            /\ task[u].pc = "failed" /\ task[u].error.kind = "ParseError"
            /\ task[v].pc = "failed"
            /\ task[v].error.kind \in {"FPDSRequestError", "NetworkError"}

\* C34: with threadCount >= 1, retryAttempts >= 1 and HTTP calls that all
\* end, no page is requested more than retryAttempts times, every getData
\* call eventually resolves or rejects, and every searchContracts call
\* eventually resolves.
C34_FetchTerminates ==
    /\ [](\A t \in DOMAIN task : task[t].attempt <= config.retryAttempts)
    /\ \A c \in Contracts :
            (call[c].entry = "getData") ~> (call[c].state \in {"resolved", "rejected"})
    /\ (batch.state = "running") ~> (batch.state = "resolved")

\* threadCount is a number above zero
PositiveNumber(value) == value.type = "number" /\ ~value.neg /\ value.whole > 0

\* C35: on a request object whose threadCount is not a positive number (0,
\* negative, NaN, or undefined given in the config) no page fetch ever gets
\* past acquire(), so none issues an HTTP request, and no public call
\* resolves or rejects.
C35_NoPermitNoRequest ==
    ~PositiveNumber(config.threadCount) =>
        /\ \A t \in DOMAIN task :
                /\ task[t].pc \in {"none", "waiting"}
                /\ task[t].log = <<>>
                /\ task[t].url = <<>>
        /\ \A c \in DOMAIN call : call[c].state \notin {"resolved", "rejected"}

\* C35 witness: with an undefined threadCount getData and getDataStream
\* were called; the first page fetch of each is queued in acquire()
C35_Witness ==
    /\ config.threadCount = Undefined
    /\ call[1].state = "firstPage"
    /\ call[2].entry = "getDataStream"
    /\ task[<<1, 1>>].pc = "waiting"
    /\ task[<<2, 1>>].pc = "waiting"
    /\ Waiting(semaphore[1]) = 2

\* C36: with retryAttempts <= 0 a page fetch makes no HTTP call: from
\* acquire() it goes straight to its failure, whose error value is the
\* undefined one (no RequestError, no NetworkError), and that step releases
\* its permit.
C36_NoAttemptUndefinedError ==
    /\ [](config.retryAttempts <= 0 =>
            \A t \in DOMAIN task :
                /\ task[t].pc \in {"none", "waiting", "ready", "failed"}
                /\ task[t].attempt = 0
                /\ \A k \in 1..Len(task[t].log) : task[t].log[k] # Attempt
                /\ task[t].pc = "failed" => task[t].error = NoError)
    /\ [][config.retryAttempts <= 0 =>
            \A t \in DOMAIN task :
                (task[t].pc = "ready" /\ task'[t].pc # "ready") =>
                    /\ task'[t].pc = "failed"
                    /\ semaphore'[InstOf(t)] = Release(semaphore[InstOf(t)]).sem]_vars

\* C36 witness: with retryAttempts = 0 and one permit, the page fetch of
\* getData has failed with the undefined error value without an HTTP call,
\* and the page fetch of getPage, which was queued behind it, has the permit
C36_Witness ==
    /\ config.retryAttempts = 0
    /\ config.threadCount = 1
    /\ task[<<1, 1>>].pc = "failed"
    /\ task[<<1, 1>>].error = NoError
    /\ task[<<1, 1>>].log = <<Thrown>>
    /\ task[<<2, 1>>].pc = "ready"

\* a record without its source_metadata
Unstamped(record) == <<record[1], record[2], record[3]>>

RECURSIVE InInputOrder(_)
\* the records the getData() calls of the queries c..MaxContracts returned,
\* query after query in the order of request.contracts
InInputOrder(c) ==
    IF c > MaxContracts THEN <<>>
    ELSE (IF call[c].state = "resolved" THEN call[c].records ELSE <<>>)
            \o InInputOrder(c + 1)

\* C37: the list searchContracts returns is, record for record, the results
\* of its queries one after the other in the order of the contract numbers
\* of the request, a failed query adding nothing, whatever the order in which
\* the queries settled.
C37_ResultsInInputOrder ==
    batch.state = "resolved" =>
        /\ Len(batch.settled) = MaxContracts
        /\ [k \in 1..Len(batch.records) |-> Unstamped(batch.records[k])]
                = InInputOrder(1)

\* C37 witness: the last query settled first and the first query last, both
\* with records, and the list returned starts with a record of the first
C37_Witness ==
    /\ batch.state = "resolved"
    /\ batch.settled[1] = MaxContracts
    /\ batch.settled[MaxContracts] = 1
    /\ call[1].records # <<>>
    /\ call[MaxContracts].records # <<>>
    /\ batch.records[1][1] = 1
    /\ batch.records[Len(batch.records)][1] = MaxContracts

\* the page fetches of public call c that are under way, and its next page
Started(c) == {t \in TasksOf(c) : task[t].pc # "none"}
IsPrefix(s, t) == Len(s) <= Len(t) /\ SubSeq(t, 1, Len(s)) = s

\* C38: getDataStream has at most one page fetch under way, so it never
\* holds more than one permit; the fetch of page k + 1 starts only from a
\* stream suspended at the yield of batch k, when the consumer asks for
\* the next batch; the batches yielded are never taken back, and a stream
\* that fails at page k has yielded the batches of pages 1..k-1.
C38_StreamOnePageAtATime ==
    /\ [](\A c \in DOMAIN call :
            call[c].entry = "getDataStream" =>
                /\ Cardinality(Started(c)) <= 1
                /\ \A t \in Started(c) : t[2] = call[c].page
                /\ call[c].state = "rejected" =>
                        Len(call[c].yielded) = call[c].page - 1)
    /\ [][\A c \in DOMAIN call :
            call[c].entry = "getDataStream" =>
                /\ IsPrefix(call[c].yielded, call'[c].yielded)
                /\ \A p \in Pages :
                      (task[<<c, p>>].pc = "none" /\ task'[<<c, p>>].pc # "none") =>
                          /\ call[c].state = "suspended"
                          /\ p = Len(call[c].yielded) + 1
                          /\ Started(c) = {}]_vars

\* C38 witness: a stream over three pages has failed at its third page after
\* yielding the batches of pages 1 and 2, which the consumer has
C38_Witness ==
    \E c \in DOMAIN call :
        /\ call[c].entry = "getDataStream"
        /\ call[c].state = "rejected"
        /\ call[c].page = 3
        /\ Len(call[c].yielded) = 2
        /\ call[c].yielded[1] # <<>>
        /\ call[c].yielded[2] # <<>>

\* C39: for a record made by mapRecord, the cell convertToCSV writes in each
\* of the columns sdvosb_status, small_business_status and
\* women_owned_status is the "Yes" or "No" the record has in that field.
C39_StatusCellsPreserved ==
    probe.state = "settled" =>
        LET lines == SplitOn(probe.out, "\n")
            header == SplitOn(lines[1], ",")
            row == SplitOn(lines[2], ",")
        IN  /\ Len(lines) = 2
            /\ Len(row) = Len(header)
            /\ \A k \in 1..Len(probe.record) :
                  /\ probe.record[k][2] \in {Yes, No}
                  /\ \E j \in 1..Len(header) : header[j] = probe.record[k][1]
                  /\ \A j \in 1..Len(header) :
                        header[j] = probe.record[k][1] =>
                            row[j] = probe.record[k][2].chars
====
